---- MODULE Spec2Model ----
(***************************************************************************)
(* Model of the file-transfer HTTP server of progjar5: the request         *)
(* processor (http.py), the thread-pool engine                             *)
(* (server_thread_pool_http.py) and the process-pool engine                *)
(* (server_process_pool_http.py).                                          *)
(*                                                                         *)
(* Text.  A Python str and a Python bytes value are both sequences of      *)
(* tokens.  A token is a TLA+ string standing for one character (one       *)
(* byte), or for a literal run of ASCII characters that the code only ever *)
(* handles as a whole ("status", "File ", ...).  TokLen gives the number   *)
(* of characters (bytes) a token stands for.  "U+E9" (e acute) is one character whose   *)
(* UTF-8 encoding is the two bytes "xC3" "xA9".                            *)
(***************************************************************************)
EXTENDS Integers, Sequences, FiniteSets, TLC

VARIABLES
    fs,            \* the file system seen from the storage directory: path -> bytes
    now,           \* int(datetime.now().timestamp())
    hist,          \* the exchanges served so far: <<[req, resp, pre, post]>>
    upl,           \* the uploads two pool threads run at the same time
    engine,        \* "thread" or "process"; "none" while no server runs
    server_active, \* server_active (process pool), server_running (thread pool)
    listening,     \* the listening socket is open
    acceptor,      \* the main thread: [pc, held, idx]
    queue,         \* request_queue (process pool), the executor's work queue (thread pool)
    worker,        \* worker -> [pc, conn, buf, request_id]
    conn,          \* connection -> [st, data, ended, sent, err, taken]
    processed,     \* processed_requests of the thread pool server
    dropped        \* the connections the acceptor closed on a full queue

storeVars == <<fs, now, hist>>

engineVars == <<engine, server_active, listening, acceptor, queue, worker, conn,
                processed, dropped>>

vars == <<fs, now, hist, upl, engine, server_active, listening, acceptor, queue,
          worker, conn, processed, dropped>>

-----------------------------------------------------------------------------
(* Bounds of the model *)

MaxTime == 1

MaxRequests == 2

\* worker processes of the pool (4 by default), threads of the pool (8)
WorkerCount == 2

\* places in request_queue (150 in the server)
QueueCapacity == 1

\* connections clients open while the server runs
MaxConnections == 2

-----------------------------------------------------------------------------
(* Python values *)

\* Python's None, where the code holds None in place of a str or bytes
None == <<"<None>">>

\* str (t = "str") and bytes (t = "bytes") values handed to build_response
Str(s) == [t |-> "str", v |-> s]

Bytes(b) == [t |-> "bytes", v |-> b]

\* characters (bytes) one token stands for
TokLen(c) ==
    CASE c = "Invalid request format" -> 22
      [] c = "Malformed HTTP request" -> 22
      [] c = "Invalid HTTP request line" -> 25
      [] c = "HTTP method not supported" -> 25
      [] c = "Boundary not found in multipart request" -> 39
      [] c = "No valid file found in request" -> 30
      [] c = "Filename is required" -> 20
      [] c = "File " -> 5
      [] c = " uploaded successfully (" -> 24
      [] c = " bytes)" -> 7
      [] c = "Advanced HTTP File Server - Upload files to /file-upload" -> 56
      [] c = "Server is running normally" -> 26
      [] c = "No files in directory" -> 21
      [] c = " (" -> 2
      [] c = " not found" -> 10
      [] c = " deleted successfully" -> 21
      [] c = "uploaded_file_" -> 14
      [] c = "file_" -> 5
      [] c = "status" -> 6
      [] c = "directory" -> 9
      [] c = "redirect" -> 8
      [] c = "file-upload" -> 11
      [] c = "passwd" -> 6
      [] c = "etc" -> 3
      [] c = "txt" -> 3
      [] c = "TXT" -> 3
      [] c = "pdf" -> 3
      [] c = "os.remove: is a directory" -> 25
      [] c = "Request parsing error: " -> 23
      [] c = "'utf-8' codec can't decode byte 0xff in position " -> 49
      [] c = ": invalid start byte" -> 20
      [] c = "secret" -> 6
      [] OTHER -> 1

RECURSIVE SumLen(_)
SumLen(s) == IF s = <<>> THEN 0 ELSE TokLen(Head(s)) + SumLen(Tail(s))

\* len(content): characters of a str, bytes of a bytes value
PyLen(content) == SumLen(content.v)

\* str.encode('utf-8'), character by character
Utf8(c) == IF c = "U+E9" THEN <<"xC3", "xA9">> ELSE <<c>>

RECURSIVE encode(_)
encode(s) == IF s = <<>> THEN <<>> ELSE Utf8(Head(s)) \o encode(Tail(s))

\* str(n) for n >= 0
RECURSIVE DecStr(_)
DecStr(n) ==
    LET d == <<"0", "1", "2", "3", "4", "5", "6", "7", "8", "9">>[(n % 10) + 1]
    IN  IF n < 10 THEN <<d>> ELSE DecStr(n \div 10) \o <<d>>

\* s.find(c) as a 1-based index, 0 when absent
RECURSIVE FindFrom(_, _, _)
FindFrom(s, c, i) ==
    IF i > Len(s) THEN 0 ELSE IF s[i] = c THEN i ELSE FindFrom(s, c, i + 1)

Find(s, c) == FindFrom(s, c, 1)

\* c in s
Contains(s, c) == Find(s, c) # 0

\* s.split(sep) for a one-character separator
RECURSIVE Split(_, _)
Split(s, sep) ==
    LET i == Find(s, sep)
    IN  IF i = 0 THEN <<s>>
        ELSE <<SubSeq(s, 1, i - 1)>> \o Split(SubSeq(s, i + 1, Len(s)), sep)

\* s.strip() (the model's only whitespace character is " ")
RECURSIVE LStrip(_)
LStrip(s) == IF s # <<>> /\ Head(s) = " " THEN LStrip(Tail(s)) ELSE s

RECURSIVE RStrip(_)
RStrip(s) ==
    IF s # <<>> /\ s[Len(s)] = " " THEN RStrip(SubSeq(s, 1, Len(s) - 1)) ELSE s

Strip(s) == RStrip(LStrip(s))

\* str.upper() and str.lower() on the method and header-name tokens
Upper(t) ==
    CASE t = "get" -> "GET"
      [] t = "post" -> "POST"
      [] t = "delete" -> "DELETE"
      [] t = "put" -> "PUT"
      [] OTHER -> t

Lower(t) ==
    CASE t = "X-Upload-Filename" -> "x-upload-filename"
      [] t = "Content-Type" -> "content-type"
      [] t = "Content-Disposition" -> "content-disposition"
      [] t = "Content-Length" -> "content-length"
      [] OTHER -> t

\* truthiness of a str-or-None value: "if not filename"
Truthy(s) == s # None /\ s # <<>>

\* os.path.basename on POSIX: what follows the last "/"
RECURSIVE basename(_)
basename(p) ==
    LET i == Find(p, "/")
    IN  IF i = 0 THEN p ELSE basename(SubSeq(p, i + 1, Len(p)))

\* s.startswith('.')
StartsWithDot(s) == s # <<>> /\ Head(s) = "."

\* dict.get(key, default)
Get(d, k, default) == IF k \in DOMAIN d THEN d[k] ELSE default

\* re.search(r'filename="([^"]*)"', s): group 1, or None without a match.
\* The token "filename=q" stands for filename=" and "q" for a double quote.
RegexFilename(s) ==
    LET i == Find(s, "filename=q")
    IN  IF i = 0 THEN None
        ELSE LET rest == SubSeq(s, i + 1, Len(s))
                 j == Find(rest, "q")
             IN  IF j = 0 THEN None ELSE SubSeq(rest, 1, j - 1)

\* re.search(r'boundary=([^;]+)', s): group 1, or None without a match
RegexBoundary(s) ==
    LET i == Find(s, "boundary=")
    IN  IF i = 0 THEN None
        ELSE LET rest == SubSeq(s, i + 1, Len(s))
                 j == Find(rest, ";")
                 g == IF j = 0 THEN rest ELSE SubSeq(rest, 1, j - 1)
             IN  IF g = <<>> THEN None ELSE g

-----------------------------------------------------------------------------
(* The file system.  A key of fs is the normalised path of a regular file  *)
(* relative to the storage directory: a bare name for a file directly      *)
(* inside it, "../" prefixes for a file above it.  The storage directory   *)
(* holds no subdirectory (the server creates none).                        *)

NoFiles == [k \in {} |-> <<>>]

WriteFile(files, key, data) ==
    [k \in (DOMAIN files) \cup {key} |-> IF k = key THEN data ELSE files[k]]

\* a variant of os.remove that leaves the file in place
RemoveNothing(files, key) == files

RemoveFile(files, key) == [k \in (DOMAIN files) \ {key} |-> files[k]]

RECURSIVE UpPrefix(_)
UpPrefix(up) == IF up = 0 THEN <<>> ELSE <<".", ".", "/">> \o UpPrefix(up - 1)

\* what os.path.join(storage_directory, requested_file) names:
\* [kind |-> "file", key], [kind |-> "dir"] or [kind |-> "none"]
RECURSIVE Walk(_, _, _)
Walk(segs, i, up) ==
    LET seg == segs[i]
    IN  IF i < Len(segs)
        THEN CASE seg = <<>> /\ i = 1 -> [kind |-> "none"]  \* absolute path: outside the model
               [] seg = <<>> \/ seg = <<".">> -> Walk(segs, i + 1, up)
               [] seg = <<".", ".">> -> Walk(segs, i + 1, up + 1)
               [] OTHER -> [kind |-> "none"]            \* no such directory
        ELSE IF seg = <<>> \/ seg = <<".">> \/ seg = <<".", ".">>
             THEN [kind |-> "dir"]
             ELSE [kind |-> "file", key |-> UpPrefix(up) \o seg]

\* a variant that looks only the last segment up, as the upload handler does
Resolve_basename(requested_file) == Walk(<<basename(requested_file)>>, 1, 0)

Resolve(requested_file) == Walk(Split(requested_file, "/"), 1, 0)

\* os.path.isfile(os.path.join(storage_directory, requested_file))
isfile(files, requested_file) ==
    LET r == Resolve(requested_file)
    IN  r.kind = "file" /\ r.key \in DOMAIN files

\* os.path.exists(os.path.join(storage_directory, requested_file))
exists(files, requested_file) ==
    LET r == Resolve(requested_file)
    IN  r.kind = "dir" \/ (r.kind = "file" /\ r.key \in DOMAIN files)

-----------------------------------------------------------------------------
(* AdvancedHttpProcessor *)

NoHeaders == [k \in {} |-> <<>>]

\* build_response: the Date, Connection and Server headers are the same in
\* every response and are left out; content_length is the value of the
\* Content-Length header, body the bytes sent after the blank line.
build_response(status_code, status_text, content, extra_headers) ==
    [status |-> status_code,
     text |-> status_text,
     content_length |-> PyLen(content),
     extra |-> extra_headers,
     body |-> IF content.t = "bytes" THEN content.v ELSE encode(content.v)]

\* What a handler returns in the model: the response and the file system it leaves
Out(response, files) == [resp |-> response, files |-> files]

\* a variant that strips every trailing CRLF, as rstrip(b'\r\n') would
RECURSIVE StripAllCRLF(_)
StripAllCRLF(b) ==
    IF Len(b) >= 2 /\ b[Len(b) - 1] = "CR" /\ b[Len(b)] = "LF"
    THEN StripAllCRLF(SubSeq(b, 1, Len(b) - 2))
    ELSE b

\* file_content.endswith(b'\r\n') stripped once
StripCRLF(b) ==
    IF Len(b) >= 2 /\ b[Len(b) - 1] = "CR" /\ b[Len(b)] = "LF"
    THEN SubSeq(b, 1, Len(b) - 2)
    ELSE b

\* a variant that passes over a file part with an empty name
RECURSIVE parse_form_data_named(_)
parse_form_data_named(form_parts) ==
    IF form_parts = <<>> THEN [filename |-> None, file_content |-> None]
    ELSE LET part == Head(form_parts)
         IN  IF part.disp /\ part.hasfn /\ part.fname # None /\ part.sep
                  /\ basename(part.fname) # <<>>
             THEN [filename |-> basename(part.fname),
                   file_content |-> StripCRLF(part.content)]
             ELSE parse_form_data_named(Tail(form_parts))

\* parse_form_data.  form_parts, the result of request_body.split(b'--' +
\* boundary), is a sequence of records: disp (b'Content-Disposition' in part),
\* hasfn (b'filename=' in part), fname (group 1 of the filename regex, None
\* without a match), sep (part.find(b'\r\n\r\n') # -1) and content (the bytes
\* after that separator).
RECURSIVE parse_form_data(_)
parse_form_data(form_parts) ==
    IF form_parts = <<>> THEN [filename |-> None, file_content |-> None]
    ELSE LET part == Head(form_parts)
         IN  IF part.disp /\ part.hasfn /\ part.fname # None /\ part.sep
             THEN [filename |-> basename(part.fname),
                   file_content |-> StripCRLF(part.content)]
             ELSE parse_form_data(Tail(form_parts))

\* handle_upload, lines 195-198: the name the upload is stored under
safe_filename(filename, t) ==
    LET base == basename(filename)
    IN  IF base = <<>> \/ StartsWithDot(base) THEN <<"file_">> \o DecStr(t) ELSE base

\* a variant that joins the client's name to the storage directory as it is
save_upload_unsanitised(filename, file_data, files, t) ==
    LET success_msg == <<"File ">> \o filename \o <<" uploaded successfully (">>
                       \o DecStr(SumLen(file_data)) \o <<" bytes)">>
    IN  [resp |-> [status |-> 201, text |-> "Created",
                   content_length |-> SumLen(success_msg), extra |-> [k \in {} |-> <<>>],
                   body |-> success_msg],
         files |-> WriteFile(files, filename, file_data)]

\* handle_upload, lines 195-206: sanitise the name, write the file, answer 201
save_upload(filename, file_data, files, t) ==
    LET success_msg == <<"File ">> \o safe_filename(filename, t)
                       \o <<" uploaded successfully (">>
                       \o DecStr(SumLen(file_data)) \o <<" bytes)">>
    IN  Out(build_response(201, "Created", Str(success_msg), NoHeaders),
            WriteFile(files, safe_filename(filename, t), file_data))

\* a variant that leaves the timestamp out
fallback_name_fixed(t) == <<"uploaded_file_">>

\* the name of a raw upload that names no file
fallback_name(t) == <<"uploaded_file_">> \o DecStr(t)

handle_upload(request_body, form_parts, headers_dict, files, t) ==
    LET content_type == Get(headers_dict, "content-type", <<>>)
    IN  IF Contains(content_type, "multipart/form-data")
        THEN IF RegexBoundary(content_type) = None
             THEN Out(build_response(400, "Bad Request",
                        Str(<<"Boundary not found in multipart request">>), NoHeaders), files)
             ELSE LET parsed == parse_form_data(form_parts)
                  IN  IF ~Truthy(parsed.filename) \/ parsed.file_content = None
                      THEN Out(build_response(400, "Bad Request",
                                 Str(<<"No valid file found in request">>), NoHeaders), files)
                      ELSE save_upload(parsed.filename, parsed.file_content, files, t)
        ELSE LET header_name == Get(headers_dict, "x-upload-filename", None)
                 disposition_name ==
                     RegexFilename(Get(headers_dict, "content-disposition", <<>>))
                 named == IF Truthy(header_name) THEN header_name
                          ELSE IF disposition_name # None THEN disposition_name
                          ELSE header_name
                 filename == IF Truthy(named) THEN named ELSE fallback_name(t)
             IN  save_upload(filename, request_body, files, t)

\* the body of GET /directory; listing is os.listdir(storage_directory)
RECURSIVE JoinEntries(_, _)
JoinEntries(listing, files) ==
    IF listing = <<>> THEN <<>>
    ELSE LET item == Head(listing)
             line == item \o <<" (">> \o DecStr(SumLen(files[item])) \o <<" bytes)">>
         IN  IF Len(listing) = 1 THEN line
             ELSE line \o <<"LF">> \o JoinEntries(Tail(listing), files)

\* os.path.splitext(p)[1]: from the last "." of the last path segment, unless
\* that segment has nothing but dots before it
RECURSIVE LastDot(_, _)
LastDot(s, i) == IF i = 0 THEN 0 ELSE IF s[i] = "." THEN i ELSE LastDot(s, i - 1)

RECURSIVE AllDots(_)
AllDots(s) == s = <<>> \/ (Head(s) = "." /\ AllDots(Tail(s)))

splitext_ext(p) ==
    LET base == basename(p)
        i == LastDot(base, Len(base))
    IN  IF i = 0 \/ AllDots(SubSeq(base, 1, i - 1)) THEN <<>>
        ELSE SubSeq(base, i, Len(base))

\* a variant that looks the extension up as it is written
LowerExt_as_written(t) == t

\* content_type_mappings.get(file_extension.lower(), 'application/octet-stream');
\* an extension is "." followed by one token
LowerExt(t) == CASE t = "TXT" -> "txt" [] t = "PDF" -> "pdf" [] OTHER -> t

mime_type(requested_file) ==
    LET e == splitext_ext(requested_file)
        x == IF Len(e) = 2 THEN LowerExt(e[2]) ELSE ""
    IN  CASE x = "pdf" -> "application/pdf"
          [] x = "jpg" -> "image/jpeg"
          [] x = "jpeg" -> "image/jpeg"
          [] x = "png" -> "image/png"
          [] x = "gif" -> "image/gif"
          [] x = "txt" -> "text/plain"
          [] x = "html" -> "text/html"
          [] x = "htm" -> "text/html"
          [] x = "css" -> "text/css"
          [] x = "js" -> "application/javascript"
          [] x = "json" -> "application/json"
          [] x = "xml" -> "application/xml"
          [] x = "zip" -> "application/zip"
          [] x = "rar" -> "application/x-rar-compressed"
          [] x = "doc" -> "application/msword"
          [] x = "docx" -> "application/vnd.openxmlformats-officedocument.wordprocessingml.document"
          [] x = "bin" -> "application/octet-stream"
          [] OTHER -> "application/octet-stream"

\* a variant that looks every path up in the storage directory
handle_get_by_name(request_path, files, listing) ==
    LET requested_file == IF request_path = <<>> THEN <<>> ELSE Tail(request_path)
    IN  IF requested_file = <<>> \/ ~isfile(files, requested_file)
        THEN Out(build_response(404, "Not Found",
                   Str(<<"File ">> \o requested_file \o <<" not found">>),
                   NoHeaders), files)
        ELSE Out(build_response(200, "OK",
                   Bytes(files[Resolve(requested_file).key]),
                   [ContentType |-> mime_type(requested_file)]), files)

handle_get(request_path, files, listing) ==
    LET requested_file == IF request_path = <<>> THEN <<>> ELSE Tail(request_path)
    IN  CASE request_path = <<"/">> ->
               Out(build_response(200, "OK",
                     Str(<<"Advanced HTTP File Server - Upload files to /file-upload">>),
                     NoHeaders), files)
          [] request_path = <<"/", "redirect">> ->
               Out(build_response(302, "Found", Str(<<>>),
                     [Location |-> "https://youtu.be/dQw4w9WgXcQ"]), files)
          [] request_path = <<"/", "status">> ->
               Out(build_response(200, "OK", Str(<<"Server is running normally">>),
                     NoHeaders), files)
          [] request_path = <<"/", "directory">> ->
               Out(build_response(200, "OK",
                     Str(IF listing = <<>> THEN <<"No files in directory">>
                         ELSE JoinEntries(listing, files)),
                     [ContentType |-> "text/plain"]), files)
          [] OTHER ->
               IF requested_file = <<>> \/ ~isfile(files, requested_file)
               THEN Out(build_response(404, "Not Found",
                          Str(<<"File ">> \o requested_file \o <<" not found">>),
                          NoHeaders), files)
               ELSE Out(build_response(200, "OK",
                          Bytes(files[Resolve(requested_file).key]),
                          [ContentType |-> mime_type(requested_file)]), files)

handle_delete(request_path, files) ==
    LET requested_file == IF request_path = <<>> THEN <<>> ELSE Tail(request_path)
        target == Resolve(requested_file)
    IN  IF requested_file = <<>> \/ ~exists(files, requested_file)
        THEN Out(build_response(404, "Not Found",
                   Str(<<"File ">> \o requested_file \o <<" not found">>), NoHeaders), files)
        ELSE IF target.kind = "dir"
        THEN \* os.remove of a directory raises
             Out(build_response(500, "Internal Server Error",
                   Str(<<"os.remove: is a directory">>), NoHeaders), files)
        ELSE Out(build_response(200, "OK",
                   Str(<<"File ">> \o requested_file \o <<" deleted successfully">>),
                   NoHeaders), RemoveFile(files, target.key))

\* the header dictionary of handle_request: keys stripped and lower-cased,
\* values stripped, a later line overwriting an earlier one
RECURSIVE parse_headers(_, _)
parse_headers(header_lines, acc) ==
    IF header_lines = <<>> THEN acc
    ELSE LET h == Head(header_lines)
             key == Lower(h.k)
             request_headers == [x \in (DOMAIN acc) \cup {key} |->
                                   IF x = key THEN Strip(h.v) ELSE acc[x]]
         IN  parse_headers(Tail(header_lines), request_headers)

\* a variant that routes every POST to the upload handler
is_upload_route_any_path(http_method, request_path) == http_method = <<"POST">>

\* the first branch of the router: POST to /file-upload
is_upload_route(http_method, request_path) ==
    http_method = <<"POST">> /\ request_path = <<"/", "file-upload">>

\* the bytes before the terminator: the request line and the header lines
RECURSIVE header_bytes(_, _)
header_bytes(request_line, header_lines) ==
    IF header_lines = <<>> THEN request_line
    ELSE header_bytes(request_line \o <<"CR", "LF", Head(header_lines).k, ":">>
                          \o Head(header_lines).v,
                      Tail(header_lines))

\* a variant that takes every byte for text
decodes_anything(header_section) == TRUE

\* header_section.decode('utf-8') does not raise: the byte 0xff is part of no
\* UTF-8 sequence
decodes(header_section) == ~Contains(header_section, "xFF")

\* str(decode_error) for the first byte 0xff of the header section
UnicodeDecodeError(header_section) ==
    LET before == SubSeq(header_section, 1, Find(header_section, "xFF") - 1)
    IN  <<"'utf-8' codec can't decode byte 0xff in position ">>
            \o DecStr(SumLen(encode(before))) \o <<": invalid start byte">>

\* handle_request on the bytes a worker read.  request_data is a record: term
\* (the bytes hold \r\n\r\n), line (the request line), hdrs (the header lines,
\* [k, v] around the first ':'), body (the bytes after the terminator) and
\* parts (the body split on the multipart delimiter).
handle_request(request_data, files, t, listing) ==
    IF ~request_data.term
    THEN Out(build_response(400, "Bad Request", Str(<<"Malformed HTTP request">>),
               NoHeaders), files)
    ELSE IF ~decodes(header_bytes(request_data.line, request_data.hdrs))
    THEN Out(build_response(400, "Bad Request",
               Str(<<"Request parsing error: ">>
                   \o UnicodeDecodeError(header_bytes(request_data.line,
                                                      request_data.hdrs))),
               NoHeaders), files)
    ELSE LET request_line_parts == Split(request_data.line, " ")
         IN  IF Len(request_line_parts) < 3
             THEN Out(build_response(400, "Bad Request",
                        Str(<<"Invalid HTTP request line">>), NoHeaders), files)
             ELSE LET m == request_line_parts[1]
                      http_method == [i \in 1..Len(m) |-> Upper(m[i])]
                      request_path == request_line_parts[2]
                      request_headers == parse_headers(request_data.hdrs, NoHeaders)
                  IN  IF is_upload_route(http_method, request_path)
                      THEN handle_upload(request_data.body, request_data.parts,
                                         request_headers, files, t)
                      ELSE IF http_method = <<"GET">>
                      THEN handle_get(request_path, files, listing)
                      ELSE IF http_method = <<"DELETE">>
                      THEN handle_delete(request_path, files)
                      ELSE Out(build_response(405, "Method Not Allowed",
                                 Str(<<"HTTP method not supported">>), NoHeaders), files)

-----------------------------------------------------------------------------
(* Requests of the clients *)

P1 == <<"x">>

P2 == <<"y", "CR", "LF">>

Payloads == {P1, P2}

\* file names a client supplies
PlainName == <<"a">>

DotName == <<".", "a">>

TraversalName == <<".", ".", "/", ".", ".", "/", "etc", "/", "passwd">>

SlashName == <<"a", "/">>

RouteName == <<"status">>

AccentName == <<"U+E9">>

ExtName == <<"a", ".", "TXT">>

InnerSpaceName == <<"a", " ", "b">>

EmptyName == <<>>

ClientNames ==
    {PlainName, DotName, TraversalName, SlashName, RouteName, AccentName,
     InnerSpaceName, EmptyName}

RequestLine(method, target) == <<method, " ">> \o target \o <<" ", "HTTP/1.1">>

UploadLine == RequestLine("POST", <<"/", "file-upload">>)

Header(key, value) == [k |-> key, v |-> <<" ">> \o value]

\* POST /file-upload with the raw body P and X-Upload-Filename: X
RawUpload(X, P) ==
    [term |-> TRUE, line |-> UploadLine,
     hdrs |-> <<Header("X-Upload-Filename", X),
                Header("Content-Type", <<"application/octet-stream">>)>>,
     body |-> P, parts |-> <<>>]

\* POST /file-upload with the raw body P and Content-Disposition: ...; filename="X"
DispositionUpload(X, P) ==
    [term |-> TRUE, line |-> UploadLine,
     hdrs |-> <<Header("Content-Disposition",
                       <<"attachment", ";", " ", "filename=q">> \o X \o <<"q">>)>>,
     body |-> P, parts |-> <<>>]

\* POST /file-upload with the raw body P and no header naming the file
AnonymousUpload(P) ==
    [term |-> TRUE, line |-> UploadLine, hdrs |-> <<>>, body |-> P, parts |-> <<>>]

MultipartType == <<"multipart/form-data", ";", " ", "boundary=", "B">>

Preamble == [disp |-> FALSE, hasfn |-> FALSE, fname |-> None, sep |-> FALSE, content |-> <<>>]

Epilogue == [disp |-> FALSE, hasfn |-> FALSE, fname |-> None, sep |-> FALSE, content |-> <<>>]

FilePart(X, P) ==
    [disp |-> TRUE, hasfn |-> TRUE, fname |-> X, sep |-> TRUE, content |-> P \o <<"CR", "LF">>]

\* a form field that is no file: Content-Disposition without filename=
FieldPart(P) ==
    [disp |-> TRUE, hasfn |-> FALSE, fname |-> None, sep |-> TRUE, content |-> P \o <<"CR", "LF">>]

\* POST /file-upload with a multipart body whose parts are ps
Multipart(content_type, ps) ==
    [term |-> TRUE, line |-> UploadLine,
     hdrs |-> <<Header("Content-Type", content_type)>>,
     body |-> <<"multipart body">>, parts |-> <<Preamble>> \o ps \o <<Epilogue>>]

MultipartUpload(X, P) == Multipart(MultipartType, <<FilePart(X, P)>>)

Fetch(target) ==
    [term |-> TRUE, line |-> RequestLine("GET", target), hdrs |-> <<>>,
     body |-> <<>>, parts |-> <<>>]

Remove(target) ==
    [term |-> TRUE, line |-> RequestLine("DELETE", target), hdrs |-> <<>>,
     body |-> <<>>, parts |-> <<>>]

Other(method, target) ==
    [term |-> TRUE, line |-> RequestLine(method, target), hdrs |-> <<>>,
     body |-> P1, parts |-> <<>>]

PathOf(X) == <<"/">> \o X

\* the names the upload handler generates at second t
GeneratedNames(t) == {<<"file_">> \o DecStr(t), <<"uploaded_file_">> \o DecStr(t)}

\* what clients ask to remove: names files can have in the model, and paths
\* that name no file of the storage directory
RemoveTargets ==
    {PathOf(X) : X \in {PlainName, RouteName, ExtName, InnerSpaceName,
                         EmptyName, <<".", ".">>}}

\* what clients ask for at second t
FetchTargets(t) ==
    RemoveTargets
        \cup {PathOf(X) : X \in {AccentName, <<"directory">>, TraversalName}
                                   \cup GeneratedNames(t)}

UploadRequests ==
    {RawUpload(X, P1) : X \in ClientNames}
        \cup {RawUpload(PlainName, P2), AnonymousUpload(P1)}
        \cup {MultipartUpload(X, P1) : X \in {PlainName, TraversalName, EmptyName}}
        \cup {MultipartUpload(PlainName, P2)}
        \cup {DispositionUpload(X, P1) : X \in {PlainName, EmptyName}}
        \cup {Multipart(MultipartType, <<FieldPart(P1)>>),
              Multipart(MultipartType, <<FieldPart(P1), FilePart(PlainName, P2)>>),
              Multipart(<<"multipart/form-data">>, <<FilePart(PlainName, P1)>>)}

FetchRequests(t) == {Fetch(tg) : tg \in FetchTargets(t)}

RemoveRequests == {Remove(tg) : tg \in RemoveTargets}

OtherRequests ==
    {Other(m, PathOf(PlainName)) : m \in {"PUT", "put", "get", "POST"}}
        \cup {Other("PUT", <<"/", "file-upload">>)}

-----------------------------------------------------------------------------
(* The processor serving one request after the other *)

\* the files directly inside the storage directory
StoreEntries(files) == {k \in DOMAIN files : ~Contains(k, "/")}

\* the orders os.listdir may return the entries in
Orders(S) ==
    {o \in [1..Cardinality(S) -> S] : \A i, j \in 1..Cardinality(S) : o[i] = o[j] => i = j}

\* the storage directory outlives the server: files of an earlier run
InitialStore == WriteFile(WriteFile(NoFiles, RouteName, P1), ExtName, P2)

\* the shapes of the engines' state

Engines == {"thread", "process"}

Workers == 1..WorkerCount

Connections == 1..MaxConnections

\* what travels through the queue: (client_socket, client_address) of
\* connection c is <<c, c>>, the tuple (None, None) is <<0, 0>> and None is <<>>
QueueNone == <<>>

Sentinel == <<0, 0>>

ConnectionItem(c) == <<c, c>>

\* the bytes of a request that holds no \r\n\r\n
Incomplete ==
    [term |-> FALSE, line |-> <<>>, hdrs |-> <<>>, body |-> <<>>, parts |-> <<>>]

\* bytearray() of a worker: whether it holds bytes, and the request they are
EmptyBuffer == [some |-> FALSE, req |-> Incomplete]

IdleWorker == [pc |-> "poll", conn |-> 0, buf |-> EmptyBuffer, request_id |-> 0]

\* a worker of the pool before start_server has started it
UnstartedWorker == [IdleWorker EXCEPT !.pc = "unstarted"]

\* a connection no client has opened yet
NewConnection ==
    [st |-> "new", data |-> FALSE, ended |-> "", sent |-> <<>>, err |-> FALSE,
     taken |-> FALSE]

\* the state start_server leaves when it enters the accept loop
EngineStart(e) ==
    /\ engine = e
    /\ server_active = TRUE
    /\ listening = TRUE
    /\ acceptor = [pc |-> "loop", held |-> 0, idx |-> 0, signalled |-> FALSE]
    /\ queue = <<>>
    /\ worker = [w \in Workers |-> IdleWorker]
    /\ conn = [c \in Connections |-> NewConnection]
    /\ processed = 0
    /\ dropped = {}

\* the state the constructor of a server leaves: nothing bound, nothing started
EngineBoot(e) ==
    /\ engine = e
    /\ server_active = FALSE
    /\ listening = FALSE
    /\ acceptor = [pc |-> "init", held |-> 0, idx |-> 0, signalled |-> FALSE]
    /\ queue = <<>>
    /\ worker = [w \in Workers |-> UnstartedWorker]
    /\ conn = [c \in Connections |-> NewConnection]
    /\ processed = 0
    /\ dropped = {}

Init ==
    /\ fs = InitialStore
    /\ now = 0
    /\ hist = <<>>
    /\ upl = <<>>
    /\ EngineStart("none")

\* one request handled by handle_request
Serve(r) ==
    /\ Len(hist) < MaxRequests
    /\ \E listing \in IF Contains(r.line, "directory")
                      THEN Orders(StoreEntries(fs)) ELSE {<<>>} :
          LET out == handle_request(r, fs, now, listing)
          IN  /\ fs' = out.files
              /\ hist' = Append(hist, [req |-> r, resp |-> out.resp,
                                       pre |-> fs, post |-> out.files])
    /\ UNCHANGED <<now, upl>>
    /\ UNCHANGED engineVars

Upload == \E r \in UploadRequests : Serve(r)

Download == \E r \in FetchRequests(now) : Serve(r)

Delete == \E r \in RemoveRequests : Serve(r)

Unsupported == \E r \in OtherRequests : Serve(r)

\* a second passes
Tick ==
    /\ now < MaxTime
    /\ now' = now + 1
    /\ UNCHANGED <<fs, hist, upl>>
    /\ UNCHANGED engineVars

Next == Upload \/ Download \/ Delete \/ Unsupported \/ Tick

Spec == Init /\ [][Next]_vars

-----------------------------------------------------------------------------
(* Two threads of the pool storing an upload of the same name at the same  *)
(* time: handle_upload opens the file for writing, writes and closes it    *)

RacePayloads == Payloads \cup {<<"z", "z">>}

RaceNames == {PlainName, ExtName}

PoolThreads == {1, 2}

\* file.write at the start of a file that holds content
WriteAtStart(content, data) ==
    data \o SubSeq(content, Len(data) + 1, Len(content))

StoredAs(u) == safe_filename(u.name, now)

InitRace ==
    /\ fs = InitialStore
    /\ now = 0
    /\ hist = <<>>
    /\ \E X \in RaceNames : \E Pa, Pb \in RacePayloads :
          /\ Pa # Pb
          /\ upl = <<[pc |-> "request", name |-> X, data |-> Pa, buf |-> <<>>],
                     [pc |-> "request", name |-> X, data |-> Pb, buf |-> <<>>]>>
    /\ EngineStart("thread")

\* open(file_path, 'wb'): the file is created or cut to length 0, and the
\* handle's position is 0
upload_open(w) ==
    /\ upl[w].pc = "request"
    /\ fs' = WriteFile(fs, StoredAs(upl[w]), <<>>)
    /\ upl' = [upl EXCEPT ![w].pc = "open"]
    /\ UNCHANGED <<now, hist>>
    /\ UNCHANGED engineVars

\* output_file.write(file_data): the bytes go to the file, or wait in the
\* handle's buffer when they fit into it
upload_write(w) ==
    /\ upl[w].pc = "open"
    /\ \E buffered \in BOOLEAN :
          IF buffered
          THEN /\ upl' = [upl EXCEPT ![w].pc = "written", ![w].buf = upl[w].data]
               /\ UNCHANGED fs
          ELSE /\ upl' = [upl EXCEPT ![w].pc = "written"]
               /\ fs' = WriteFile(fs, StoredAs(upl[w]),
                                  WriteAtStart(fs[StoredAs(upl[w])], upl[w].data))
    /\ UNCHANGED <<now, hist>>
    /\ UNCHANGED engineVars

\* leaving the with block closes the file: buffered bytes are written
upload_close(w) ==
    /\ upl[w].pc = "written"
    /\ upl' = [upl EXCEPT ![w].pc = "closed", ![w].buf = <<>>]
    /\ fs' = IF upl[w].buf = <<>> THEN fs
             ELSE WriteFile(fs, StoredAs(upl[w]),
                            WriteAtStart(fs[StoredAs(upl[w])], upl[w].buf))
    /\ UNCHANGED <<now, hist>>
    /\ UNCHANGED engineVars

\* a GET of the name after both uploads were answered
download_after ==
    /\ \A w \in PoolThreads : upl[w].pc = "closed"
    /\ hist = <<>>
    /\ Serve(Fetch(PathOf(upl[1].name)))

NextRace ==
    \/ \E w \in PoolThreads : upload_open(w)
    \/ \E w \in PoolThreads : upload_write(w)
    \/ \E w \in PoolThreads : upload_close(w)
    \/ download_after

SpecRace == InitRace /\ [][NextRace]_vars

-----------------------------------------------------------------------------
(* The engines: an acceptor, a queue and a pool of workers.  A connection  *)
(* is dequeued, read chunk by chunk, and with the last read answered and   *)
(* closed.                                                                 *)

\* what a worker answers to the bytes clients send in the model
EngineRequests == {Fetch(PathOf(RouteName)), Fetch(PathOf(PlainName))}

InitEngine ==
    /\ fs = InitialStore
    /\ now = 0
    /\ hist = <<>>
    /\ upl = <<>>
    /\ \E e \in Engines : EngineBoot(e)

\* the connection accept() returns next
NextConnection == CHOOSE c \in Connections :
    conn[c].st = "new" /\ \A d \in Connections : conn[d].st = "new" => c <= d

QueueFull == Len(queue) >= QueueCapacity

\* a variant of the queue that hands out the newest item first
queue_get_newest(q) == [item |-> q[Len(q)], rest |-> SubSeq(q, 1, Len(q) - 1)]

\* request_queue.get() of the process pool and the work queue of the
\* ThreadPoolExecutor: the oldest item comes out first
\* a variant that leaves the item in the queue
queue_get_peek(q) == [item |-> Head(q), rest |-> q]

queue_get(q) == [item |-> Head(q), rest |-> Tail(q)]

LastWorker(i) == i >= WorkerCount

\* --- both engines: start_server up to the accept loop

\* a variant of the failed start that launches the workers all the same
start_server_abort_with_workers ==
    /\ acceptor' = [acceptor EXCEPT !.pc = "aborted"]
    /\ worker' = [w \in Workers |-> IdleWorker]
    /\ UNCHANGED <<server_active, listening>>

\* configure_server_socket (initialize_server_socket) returned False:
\* start_server logs the failure and returns
start_server_abort ==
    /\ acceptor' = [acceptor EXCEPT !.pc = "aborted"]
    /\ UNCHANGED <<server_active, listening, worker>>

\* the socket is bound and listens, the flag is set, the workers are started
start_server_begin(bound) ==
    IF bound
    THEN /\ server_active' = TRUE
         /\ listening' = TRUE
         /\ worker' = [w \in Workers |-> IdleWorker]
         /\ acceptor' = [acceptor EXCEPT !.pc = "loop"]
    ELSE start_server_abort

\* start_server of the process pool, lines 148-181
start_server ==
    /\ engine = "process"
    /\ acceptor.pc = "init"
    /\ \E bound \in BOOLEAN : start_server_begin(bound)
    /\ UNCHANGED <<engine, queue, conn, processed, dropped, upl>>
    /\ UNCHANGED storeVars

\* start_server of the thread pool, lines 126-147
thread_start_server ==
    /\ engine = "thread"
    /\ acceptor.pc = "init"
    /\ \E bound \in BOOLEAN : start_server_begin(bound)
    /\ UNCHANGED <<engine, queue, conn, processed, dropped, upl>>
    /\ UNCHANGED storeVars

\* --- process pool: start_server, signal_shutdown_handler, terminate_server

\* terminate_server up to the first put: the flag is cleared, the socket closed
terminate_server_begin ==
    /\ server_active' = FALSE
    /\ listening' = FALSE
    /\ acceptor' = [acceptor EXCEPT !.pc = "sentinels", !.held = 0, !.idx = 1]

\* while self.server_active
start_server_loop ==
    /\ engine = "process"
    /\ acceptor.pc = "loop"
    /\ IF server_active
       THEN /\ acceptor' = [acceptor EXCEPT !.pc = "accept"]
            /\ UNCHANGED <<server_active, listening>>
       ELSE terminate_server_begin
    /\ UNCHANGED <<engine, queue, worker, conn, processed, dropped, upl>>
    /\ UNCHANGED storeVars

\* self.server_socket.accept() returns a connection
start_server_accept ==
    /\ engine = "process"
    /\ acceptor.pc = "accept"
    /\ \E c \in Connections : conn[c].st = "new"
    /\ acceptor' = [acceptor EXCEPT !.pc = "put", !.held = NextConnection]
    /\ conn' = [conn EXCEPT ![NextConnection].st = "accepted"]
    /\ UNCHANGED <<engine, server_active, listening, queue, worker, processed,
                   dropped, upl>>
    /\ UNCHANGED storeVars

\* self.server_socket.accept() raises socket.error: the loop is left
start_server_socket_error ==
    /\ engine = "process"
    /\ acceptor.pc = "accept"
    /\ terminate_server_begin
    /\ UNCHANGED <<engine, queue, worker, conn, processed, dropped, upl>>
    /\ UNCHANGED storeVars

\* a variant of the drop that forgets to close the socket
close_dropped_leak(c, cs) == cs

\* client_socket.close() of a connection the queue had no place for
close_dropped(c, cs) == [cs EXCEPT ![c].st = "closed"]

\* self.request_queue.put((client_socket, client_address), timeout=2)
start_server_put ==
    /\ engine = "process"
    /\ acceptor.pc = "put"
    /\ IF ~QueueFull
       THEN /\ queue' = Append(queue, ConnectionItem(acceptor.held))
            /\ conn' = [conn EXCEPT ![acceptor.held].st = "queued"]
            /\ UNCHANGED dropped
       ELSE \* the queue stayed full for the two seconds
            /\ conn' = close_dropped(acceptor.held, conn)
            /\ dropped' = dropped \cup {acceptor.held}
            /\ UNCHANGED queue
    /\ acceptor' = [acceptor EXCEPT !.pc = "loop", !.held = 0]
    /\ UNCHANGED <<engine, server_active, listening, worker, processed, upl>>
    /\ UNCHANGED storeVars

\* shutdown_signal_handler of a worker runs sys.exit(0): SystemExit is raised
\* where the worker is.  Inside handle_client_connection the finally clause
\* closes the socket; inside the inner try of the loop the bare except
\* swallows the exit and the worker polls again; between two rounds of the
\* loop (swallowed is FALSE) the worker ends.
shutdown_signal_handler(wk, swallowed) ==
    IF wk.pc = "exited" THEN wk
    ELSE IF wk.pc = "poll" /\ ~swallowed THEN [wk EXCEPT !.pc = "exited"]
    ELSE [wk EXCEPT !.pc = "poll", !.conn = 0, !.buf = EmptyBuffer]

\* the connections after the workers in S were signalled: what a signalled
\* worker was reading is closed unanswered
AbortedBy(S) ==
    [c \in Connections |->
        IF \E w \in S : worker[w].conn = c /\ worker[w].pc = "recv"
        THEN [conn[c] EXCEPT !.st = "closed", !.ended = "exit"]
        ELSE conn[c]]

\* SIGTERM reaches the main process, or Ctrl-C sends SIGINT to the main
\* process and to the workers at once (group): the handler of the main
\* process clears the flag, and a blocked accept() or put() goes on waiting
signal_shutdown_handler ==
    /\ engine = "process"
    /\ acceptor.pc \in {"loop", "accept", "put"}
    /\ server_active
    /\ server_active' = FALSE
    /\ \E group \in BOOLEAN :
          IF group
          THEN /\ \E swallowed \in [Workers -> BOOLEAN] :
                     worker' = [w \in Workers |->
                                  shutdown_signal_handler(worker[w], swallowed[w])]
               /\ conn' = AbortedBy(Workers)
          ELSE UNCHANGED <<worker, conn>>
    /\ acceptor' = [acceptor EXCEPT !.signalled = TRUE]
    /\ UNCHANGED <<engine, listening, queue, processed, dropped, upl>>
    /\ UNCHANGED storeVars

\* for _ in self.worker_pool: self.request_queue.put((None, None), timeout=2)
terminate_server_put ==
    /\ engine = "process"
    /\ acceptor.pc = "sentinels"
    /\ queue' = IF QueueFull THEN queue ELSE Append(queue, Sentinel)
    /\ acceptor' = IF LastWorker(acceptor.idx)
                   THEN [acceptor EXCEPT !.pc = "join", !.idx = 1]
                   ELSE [acceptor EXCEPT !.idx = acceptor.idx + 1]
    /\ UNCHANGED <<engine, server_active, listening, worker, conn, processed,
                   dropped, upl>>
    /\ UNCHANGED storeVars

\* the worker joined next, or "terminated" after the last one
AfterJoin ==
    IF LastWorker(acceptor.idx)
    THEN [acceptor EXCEPT !.pc = "terminated", !.idx = 0]
    ELSE [acceptor EXCEPT !.idx = acceptor.idx + 1]

\* for worker in self.worker_pool: worker.join(timeout=15); a worker still
\* alive then is sent SIGTERM by worker.terminate() and joined for 3 seconds
terminate_server_join ==
    /\ engine = "process"
    /\ acceptor.pc = "join"
    /\ \E swallowed \in BOOLEAN :
          worker' = [worker EXCEPT ![acceptor.idx] =
                        shutdown_signal_handler(worker[acceptor.idx], swallowed)]
    /\ conn' = AbortedBy({acceptor.idx})
    /\ acceptor' = AfterJoin
    /\ UNCHANGED <<engine, server_active, listening, queue, processed, dropped, upl>>
    /\ UNCHANGED storeVars

\* --- process pool: worker_process_function

\* connection_data is None
is_shutdown_command(connection_data) == connection_data = QueueNone

\* request_queue.get(timeout=2) returns an item; handled_requests, a count
\* the worker only logs, is left out
worker_process_function(w) ==
    /\ engine = "process"
    /\ worker[w].pc = "poll"
    /\ queue # <<>>
    /\ queue' = queue_get(queue).rest
    /\ LET connection_data == queue_get(queue).item
           client_socket == connection_data[1]
       IN  IF is_shutdown_command(connection_data)
           THEN /\ worker' = [worker EXCEPT ![w].pc = "exited"]
                /\ UNCHANGED conn
           ELSE IF client_socket = 0
           THEN \* None.settimeout raises, the error is logged, None.close()
                \* raises and is passed over: the worker polls again
                UNCHANGED <<worker, conn>>
           ELSE /\ worker' = [worker EXCEPT ![w].pc = "recv",
                                            ![w].conn = client_socket,
                                            ![w].buf = EmptyBuffer]
                /\ conn' = [conn EXCEPT ![client_socket].st = "handling",
                                        ![client_socket].taken = TRUE]
    /\ UNCHANGED <<engine, server_active, listening, acceptor, processed,
                   dropped, upl>>
    /\ UNCHANGED storeVars

\* --- both engines: the steps of handle_client_connection (process pool)
\* --- and of process_client_request (thread pool)

\* a variant that answers complete requests only
has_request_complete(buf) == buf.req.term

\* if incoming_data: (process pool), if not request_buffer: return (thread pool)
has_request(buf) == buf.some

\* a variant that answers and keeps the connection for another request
Respond_keep_alive(w, buf, how) ==
    LET c == worker[w].conn
        out == handle_request(buf.req, fs, now, <<>>)
    IN  /\ worker' = [worker EXCEPT ![w].buf = EmptyBuffer]
        /\ fs' = out.files
        /\ conn' = [conn EXCEPT ![c].data = TRUE,
                                ![c].sent = Append(@, out.resp.status)]

\* what follows the read loop for the bytes in buf: handle_request and sendall
\* of its response when there are bytes (sendall raises when the client is
\* gone), and client_socket.close() in the finally clause
Respond(w, buf, how) ==
    LET c == worker[w].conn
        out == handle_request(buf.req, fs, now, <<>>)
    IN  /\ worker' = [worker EXCEPT ![w].pc = "poll", ![w].conn = 0,
                                    ![w].buf = EmptyBuffer]
        /\ IF has_request(buf)
           THEN /\ fs' = out.files
                /\ \E delivered \in BOOLEAN :
                      conn' = [conn EXCEPT
                                 ![c].st = "closed",
                                 ![c].data = buf.some,
                                 ![c].ended = how,
                                 ![c].sent = IF delivered
                                             THEN Append(@, out.resp.status) ELSE @,
                                 ![c].err = ~delivered]
           ELSE /\ conn' = [conn EXCEPT ![c].st = "closed", ![c].data = buf.some,
                                        ![c].ended = how]
                /\ UNCHANGED fs

\* one recv of the read loop and, when it ends the loop, the answer and the
\* close.  The client sends bytes that do not complete the headers ("part",
\* the loop goes on), the bytes that complete \r\n\r\n ("term"), closes its
\* side ("eof"), stays silent until the timeout ("timeout") or resets the
\* connection ("reset": recv raises, nothing is answered, the socket is closed).
Recv(w) ==
    /\ worker[w].pc = "recv"
    /\ \/ /\ worker' = [worker EXCEPT ![w].buf.some = TRUE]
          /\ conn' = [conn EXCEPT ![worker[w].conn].data = TRUE]
          /\ UNCHANGED fs
       \/ \E r \in EngineRequests : Respond(w, [some |-> TRUE, req |-> r], "term")
       \/ \E how \in {"eof", "timeout"} : Respond(w, worker[w].buf, how)
       \/ /\ worker' = [worker EXCEPT ![w].pc = "poll", ![w].conn = 0,
                                       ![w].buf = EmptyBuffer]
          /\ conn' = [conn EXCEPT ![worker[w].conn].st = "closed",
                                  ![worker[w].conn].ended = "reset"]
          /\ UNCHANGED fs
    /\ UNCHANGED <<engine, server_active, listening, acceptor, queue, processed,
                   dropped, upl, now, hist>>

handle_client_connection_recv(w) == engine = "process" /\ Recv(w)

process_client_request_recv(w) == engine = "thread" /\ Recv(w)

\* --- thread pool: start_server, shutdown_server, process_client_request

\* shutdown_server: the flag is cleared, the socket closed, and
\* self.thread_pool.shutdown(wait=True, timeout=15) raises TypeError, as
\* ThreadPoolExecutor.shutdown takes no timeout: the error leaves start_server
shutdown_server(interrupted) ==
    /\ server_active' = FALSE
    /\ listening' = FALSE
    /\ acceptor' = [acceptor EXCEPT !.pc = "raised", !.signalled = @ \/ interrupted]

\* while self.server_running
thread_start_server_loop ==
    /\ engine = "thread"
    /\ acceptor.pc = "loop"
    /\ IF server_active
       THEN /\ acceptor' = [acceptor EXCEPT !.pc = "accept"]
            /\ UNCHANGED <<server_active, listening>>
       ELSE shutdown_server(FALSE)
    /\ UNCHANGED <<engine, queue, worker, conn, processed, dropped, upl>>
    /\ UNCHANGED storeVars

\* accept() returns a connection and thread_pool.submit queues its task
thread_start_server_accept ==
    /\ engine = "thread"
    /\ acceptor.pc = "accept"
    /\ \E c \in Connections : conn[c].st = "new"
    /\ queue' = Append(queue, ConnectionItem(NextConnection))
    /\ conn' = [conn EXCEPT ![NextConnection].st = "queued"]
    /\ acceptor' = [acceptor EXCEPT !.pc = "loop"]
    /\ UNCHANGED <<engine, server_active, listening, worker, processed,
                   dropped, upl>>
    /\ UNCHANGED storeVars

\* accept() raises socket.error: the loop is left and shutdown_server runs
thread_start_server_socket_error ==
    /\ engine = "thread"
    /\ acceptor.pc = "accept"
    /\ shutdown_server(FALSE)
    /\ UNCHANGED <<engine, queue, worker, conn, processed, dropped, upl>>
    /\ UNCHANGED storeVars

\* Ctrl-C raises KeyboardInterrupt in the main thread: the loop is left and
\* shutdown_server runs
thread_start_server_interrupt ==
    /\ engine = "thread"
    /\ acceptor.pc \in {"loop", "accept"}
    /\ shutdown_server(TRUE)
    /\ UNCHANGED <<engine, queue, worker, conn, processed, dropped, upl>>
    /\ UNCHANGED storeVars

\* a thread of the pool starts process_client_request on the next task:
\* the request id is taken under stats_lock
process_client_request(w) ==
    /\ engine = "thread"
    /\ worker[w].pc = "poll"
    /\ queue # <<>>
    /\ queue' = queue_get(queue).rest
    /\ processed' = processed + 1
    /\ LET client_socket == queue_get(queue).item[1]
       IN  /\ worker' = [worker EXCEPT ![w].pc = "recv",
                                       ![w].conn = client_socket,
                                       ![w].buf = EmptyBuffer,
                                       ![w].request_id = processed + 1]
           /\ conn' = [conn EXCEPT ![client_socket].st = "handling",
                                   ![client_socket].taken = TRUE]
    /\ UNCHANGED <<engine, server_active, listening, acceptor, dropped, upl>>
    /\ UNCHANGED storeVars

NextEngine ==
    \/ start_server
    \/ thread_start_server
    \/ start_server_loop
    \/ start_server_accept
    \/ start_server_socket_error
    \/ start_server_put
    \/ signal_shutdown_handler
    \/ terminate_server_put
    \/ terminate_server_join
    \/ \E w \in Workers : worker_process_function(w)
    \/ \E w \in Workers : handle_client_connection_recv(w)
    \/ thread_start_server_loop
    \/ thread_start_server_accept
    \/ thread_start_server_socket_error
    \/ thread_start_server_interrupt
    \/ \E w \in Workers : process_client_request(w)
    \/ \E w \in Workers : process_client_request_recv(w)

SpecEngine == InitEngine /\ [][NextEngine]_vars

\* what the engines do on their own: the main process and every worker go
\* on running, and a recv returns, with bytes or at its timeout.  Clients
\* connecting, accept() failing and signals are not the engines' doing.
Fairness ==
    /\ WF_vars(start_server)
    /\ WF_vars(start_server_loop)
    /\ WF_vars(start_server_put)
    /\ WF_vars(terminate_server_put)
    /\ WF_vars(terminate_server_join)
    /\ WF_vars(thread_start_server)
    /\ WF_vars(thread_start_server_loop)
    /\ \A w \in Workers :
          /\ WF_vars(worker_process_function(w))
          /\ WF_vars(handle_client_connection_recv(w))
          /\ WF_vars(process_client_request(w))
          /\ WF_vars(process_client_request_recv(w))

SpecEngineLive == InitEngine /\ [][NextEngine]_vars /\ Fairness

-----------------------------------------------------------------------------
(* GET of the files of a storage directory that holds names of every kind: *)
(* with and without extension, in upper and lower case, hidden, and named  *)
(* like a fixed route                                                      *)

StoredNames ==
    {PlainName, RouteName, ExtName,
     <<"a", ".", "txt">>, <<"a", ".", "PDF">>, <<"a", ".", "json">>,
     <<"a", ".", "dat">>, <<"a", ".", "tar", ".", "gz">>,
     <<".", "txt">>, <<"a", ".">>}

InitGet ==
    /\ \E F, G \in StoredNames :
          fs = WriteFile(WriteFile(NoFiles, F, P1), G, P2)
    /\ now = 0
    /\ hist = <<>>
    /\ upl = <<>>
    /\ EngineStart("none")

StoredRequests == {Fetch(PathOf(F)) : F \in StoredNames}

\* handle_request of a GET of one of the names
get_stored == \E r \in StoredRequests : Serve(r)

NextGet == get_stored

SpecGet == InitGet /\ [][NextGet]_vars

-----------------------------------------------------------------------------
(* The read loop of a worker on one connection: process_client_request of  *)
(* the thread pool and handle_client_connection of the process pool.  A    *)
(* byte of the stream is a token, the sizes are scaled down.               *)

\* the size limit of the thread pool's buffer (15 * 1024 * 1024 in the source)
BufferCap == 6

\* the size of one read of the thread pool (8192 in the source)
ChunkSize == 3

\* b'\r\n\r\n'
Terminator == <<"CR", "LF", "CR", "LF">>

RECURSIVE find_from(_, _)
find_from(b, i) ==
    IF i + 3 > Len(b) THEN 0
    ELSE IF SubSeq(b, i, i + 3) = Terminator THEN i
    ELSE find_from(b, i + 1)

\* request_data.find(b"\r\n\r\n") as a 1-based index, 0 when absent
find_terminator(b) == find_from(b, 1)

\* the limit of the buffer: the process pool's is 25 MiB to the thread pool's 15
size_limit(e) == IF e = "process" THEN BufferCap + 2 ELSE BufferCap

\* the argument of recv: 16384 in the process pool, 8192 in the thread pool
recv_size(e) == IF e = "process" THEN 2 * ChunkSize ELSE ChunkSize

\* a variant that only stops at the size limit
loop_breaks_at_limit_only(request_buffer, e) ==
    IF Len(request_buffer) > size_limit(e) THEN "limit" ELSE ""

\* a variant that stops when the buffer has reached the limit
loop_breaks_at_limit(request_buffer, e) ==
    IF find_terminator(request_buffer) # 0 THEN "terminator"
    ELSE IF Len(request_buffer) >= size_limit(e) THEN "limit"
    ELSE ""

\* the two breaks after request_buffer.extend(data_chunk): why the loop
\* ends, "" when it goes on
loop_breaks(request_buffer, e) ==
    IF find_terminator(request_buffer) # 0 THEN "terminator"
    ELSE IF Len(request_buffer) > size_limit(e) THEN "limit"
    ELSE ""

\* the header section of a request on the wire: the request line and the
\* header lines, which hold no blank line
header_section(r) == <<"request line", "header lines">>

\* the bytes a client sends for the request r
request_bytes(r) == header_section(r) \o Terminator \o r.body

\* handle_request's view of the buffer of a worker that read a prefix of
\* request_bytes(r): without terminator nothing else of it is looked at, with
\* it the body is what follows the first terminator
request_data_of(buffer, r) ==
    LET header_boundary == find_terminator(buffer)
    IN  IF header_boundary = 0 THEN Incomplete
        ELSE [r EXCEPT !.body = SubSeq(buffer, header_boundary + 4, Len(buffer))]

\* a request line of two tokens
ShortLine ==
    [term |-> TRUE, line |-> <<"GET", " ", "/", "a">>, hdrs |-> <<>>,
     body |-> <<>>, parts |-> <<>>]

WireRequests ==
    {RawUpload(PlainName, P2), RawUpload(PlainName, Terminator),
     Fetch(<<"/", "redirect">>), Fetch(<<"/", "directory">>),
     Fetch(PathOf(ExtName)), Fetch(PathOf(PlainName)),
     Remove(PathOf(ExtName)), Remove(<<"/", ".", ".">>),
     Other("PUT", PathOf(PlainName)), ShortLine}

\* bytes without a terminator, more than any buffer takes
Junk == [i \in 1..(size_limit("process") + recv_size("process") + 1) |-> "g"]

\* what a client sends on its connection: a request, bytes that are none, or
\* nothing
Streams ==
    {[req |-> r, wire |-> request_bytes(r)] : r \in WireRequests}
        \cup {[req |-> Incomplete, wire |-> Junk], [req |-> Incomplete, wire |-> <<>>]}

FramerStores == {NoFiles, InitialStore}

\* upl is the worker on its connection: rest are the bytes the client has
\* still to send, request_buffer the bytearray, why the way the loop ended
InitFramer ==
    /\ fs \in FramerStores
    /\ now = 0
    /\ hist = <<>>
    /\ \E s \in Streams :
          upl = [pc |-> "recv", req |-> s.req, rest |-> s.wire,
                 request_buffer |-> <<>>, why |-> ""]
    /\ \E e \in {"thread", "process"} : EngineStart(e)

\* recv returns between one byte and recv_size bytes of the stream
framer_recv ==
    /\ upl.pc = "recv"
    /\ \E n \in 1..recv_size(engine) :
          /\ n <= Len(upl.rest)
          /\ LET request_buffer == upl.request_buffer \o SubSeq(upl.rest, 1, n)
                 why == loop_breaks(request_buffer, engine)
             IN  upl' = [upl EXCEPT !.request_buffer = request_buffer,
                                    !.rest = SubSeq(upl.rest, n + 1, Len(upl.rest)),
                                    !.why = why,
                                    !.pc = IF why = "" THEN "recv" ELSE "ready"]
    /\ UNCHANGED <<fs, now, hist>>
    /\ UNCHANGED engineVars

\* recv returns b'': the client has closed its side, wherever it was
framer_eof ==
    /\ upl.pc = "recv"
    /\ upl' = [upl EXCEPT !.why = "eof", !.pc = "ready"]
    /\ UNCHANGED <<fs, now, hist>>
    /\ UNCHANGED engineVars

\* recv raises socket.timeout: caught inside the loop
framer_timeout ==
    /\ upl.pc = "recv"
    /\ upl' = [upl EXCEPT !.why = "timeout", !.pc = "ready"]
    /\ UNCHANGED <<fs, now, hist>>
    /\ UNCHANGED engineVars

\* recv raises another error (connection reset): caught by the handlers
\* around the whole function, the socket is closed
framer_error ==
    /\ upl.pc = "recv"
    /\ upl' = [upl EXCEPT !.why = "error", !.pc = "closed"]
    /\ UNCHANGED <<fs, now, hist>>
    /\ UNCHANGED engineVars

\* a variant that takes only a buffer with a terminator for a request
has_data_terminated(request_buffer) == find_terminator(request_buffer) # 0

\* "if incoming_data:", "if not request_buffer: return"
has_data(request_buffer) == request_buffer # <<>>

\* after the loop: nothing for an empty buffer, else handle_request and
\* sendall; the socket is closed
framer_respond ==
    /\ upl.pc = "ready"
    /\ IF ~has_data(upl.request_buffer)
       THEN UNCHANGED <<fs, hist>>
       ELSE LET request_data == request_data_of(upl.request_buffer, upl.req)
            IN  \E listing \in IF Contains(request_data.line, "directory")
                               THEN Orders(StoreEntries(fs)) ELSE {<<>>} :
                   LET out == handle_request(request_data, fs, now, listing)
                   IN  /\ fs' = out.files
                       /\ hist' = Append(hist, [req |-> request_data, resp |-> out.resp,
                                                pre |-> fs, post |-> out.files])
    /\ upl' = [upl EXCEPT !.pc = "closed"]
    /\ UNCHANGED now
    /\ UNCHANGED engineVars

NextFramer ==
    framer_recv \/ framer_eof \/ framer_timeout \/ framer_error \/ framer_respond

SpecFramer == InitFramer /\ [][NextFramer]_vars

-----------------------------------------------------------------------------
(* The router on a storage directory that holds a file named like a fixed  *)
(* route, with a file in the directory above it                            *)

\* a file of the directory above the storage directory
OutsideFile == <<".", ".", "/", "secret">>

RoutedNames == {<<"redirect">>, RouteName, <<"directory">>, PlainName}

InitRouter ==
    /\ \E F \in RoutedNames :
          fs = WriteFile(WriteFile(WriteFile(NoFiles, F, P1), ExtName, P2), OutsideFile, P1)
    /\ now = 0
    /\ hist = <<>>
    /\ upl = <<>>
    /\ EngineStart("none")

\* the paths of the fixed routes, of files inside and outside the storage
\* directory, and of no file
RouterTargets ==
    {<<"/">>, <<"/", "redirect">>, <<"/", "status">>, <<"/", "directory">>,
     PathOf(PlainName), PathOf(ExtName), PathOf(OutsideFile),
     <<"/", ".", "/">> \o ExtName, <<"/", ".", ".">>}

RouterGets == {Fetch(tg) : tg \in RouterTargets}

RouterDeletes == {Remove(tg) : tg \in RouterTargets}

\* a DELETE of a stored file that the parser does not accept: without
\* terminator, without HTTP version, with the byte 0xff in a header
MalformedRequests ==
    {[Remove(PathOf(ExtName)) EXCEPT !.term = FALSE],
     [Remove(PathOf(ExtName)) EXCEPT !.line = <<"DELETE", " ">> \o PathOf(ExtName)],
     [Remove(PathOf(ExtName)) EXCEPT !.line = <<"DELETE">>],
     [Remove(PathOf(ExtName)) EXCEPT !.hdrs = <<Header("X-Id", <<"xFF">>)>>],
     [RawUpload(PlainName, P1) EXCEPT !.line = <<"xFF">> \o UploadLine]}

\* uploads under the name of the outside file
RouterUploads == {RawUpload(OutsideFile, P2), MultipartUpload(OutsideFile, P2)}

route_get == \E r \in RouterGets : Serve(r)

route_upload == \E r \in RouterUploads : Serve(r)

route_delete == \E r \in RouterDeletes : Serve(r)

route_reject == \E r \in MalformedRequests : Serve(r)

NextRouter == route_get \/ route_delete \/ route_reject \/ route_upload

SpecRouter == InitRouter /\ [][NextRouter]_vars

-----------------------------------------------------------------------------
(* One multipart upload: bodies of one and of two parts of every kind      *)

\* a part with Content-Disposition and filename="X" but no blank line
HeadersOnlyPart(X) ==
    [disp |-> TRUE, hasfn |-> TRUE, fname |-> X, sep |-> FALSE, content |-> <<>>]

\* a part whose filename= is not followed by a quoted name
UnquotedPart(P) ==
    [disp |-> TRUE, hasfn |-> TRUE, fname |-> None, sep |-> TRUE,
     content |-> P \o <<"CR", "LF">>]

\* a file part whose content ends without \r\n
OpenPart(X, P) ==
    [disp |-> TRUE, hasfn |-> TRUE, fname |-> X, sep |-> TRUE, content |-> P]

Parts ==
    {FilePart(PlainName, P1), FilePart(<<"b">>, P2), FilePart(EmptyName, P1),
     FilePart(DotName, P1), FieldPart(P1), HeadersOnlyPart(<<"c">>),
     UnquotedPart(P1), OpenPart(<<"d">>, P1)}

PartLists == {<<p>> : p \in Parts} \cup {<<p, q>> : p \in Parts, q \in Parts}

MultipartRequests ==
    {Multipart(MultipartType, ps) : ps \in PartLists}
        \cup {Multipart(<<"multipart/form-data">>, ps) : ps \in PartLists}

InitMultipart ==
    /\ fs \in {NoFiles, WriteFile(NoFiles, PlainName, P2)}
    /\ now \in 0..MaxTime
    /\ hist = <<>>
    /\ upl = <<>>
    /\ EngineStart("none")

\* handle_request of one multipart upload
multipart_upload ==
    /\ hist = <<>>
    /\ \E r \in MultipartRequests : Serve(r)

NextMultipart == multipart_upload

SpecMultipart == InitMultipart /\ [][NextMultipart]_vars

-----------------------------------------------------------------------------
(* The request counter of the thread pool: the threads of the pool entering *)
(* process_client_request, the monitor thread logging the count.  upl holds *)
(* stats_lock and the monitor, hist the request ids in the order they were  *)
(* given out.                                                               *)

\* the value of stats_lock when no thread holds it, and when the monitor does
Unlocked == 0

Monitor == WorkerCount + 1

CounterThread == [pc |-> "idle", loaded |-> 0, request_id |-> 0]

InitCounter ==
    /\ fs = NoFiles
    /\ now = 0
    /\ hist = <<>>
    /\ upl = [stats_lock |-> Unlocked, started |-> 0, monitor |-> "sleep", logged |-> 0]
    /\ engine = "thread"
    /\ server_active = TRUE
    /\ listening = TRUE
    /\ acceptor = [pc |-> "loop", held |-> 0, idx |-> 0, signalled |-> FALSE]
    /\ queue = <<>>
    /\ worker = [w \in Workers |-> CounterThread]
    /\ conn = [c \in Connections |-> NewConnection]
    /\ processed = 0
    /\ dropped = {}

\* a variant without mutual exclusion
acquire_unlocked(stats_lock) == TRUE

\* stats_lock.acquire() returns
acquire(stats_lock) == stats_lock = Unlocked

\* a thread of the pool starts process_client_request on the next connection
counter_enter(w) ==
    /\ worker[w].pc = "idle"
    /\ upl.started < MaxConnections
    /\ upl' = [upl EXCEPT !.started = upl.started + 1]
    /\ worker' = [worker EXCEPT ![w] = [pc |-> "with", loaded |-> 0, request_id |-> 0]]
    /\ UNCHANGED <<engine, server_active, listening, acceptor, queue, conn,
                   processed, dropped>>
    /\ UNCHANGED storeVars

\* with self.stats_lock:
counter_acquire(w) ==
    /\ worker[w].pc = "with"
    /\ acquire(upl.stats_lock)
    /\ upl' = [upl EXCEPT !.stats_lock = w]
    /\ worker' = [worker EXCEPT ![w].pc = "load"]
    /\ UNCHANGED <<engine, server_active, listening, acceptor, queue, conn,
                   processed, dropped>>
    /\ UNCHANGED storeVars

\* self.processed_requests += 1: the attribute is read ...
counter_load(w) ==
    /\ worker[w].pc = "load"
    /\ worker' = [worker EXCEPT ![w].pc = "store", ![w].loaded = processed]
    /\ UNCHANGED <<engine, server_active, listening, acceptor, queue, conn,
                   processed, dropped, upl>>
    /\ UNCHANGED storeVars

\* ... and written back one larger
counter_store(w) ==
    /\ worker[w].pc = "store"
    /\ processed' = worker[w].loaded + 1
    /\ worker' = [worker EXCEPT ![w].pc = "assign"]
    /\ UNCHANGED <<engine, server_active, listening, acceptor, queue, conn,
                   dropped, upl>>
    /\ UNCHANGED storeVars

\* request_id = self.processed_requests, and the end of the with block
counter_assign(w) ==
    /\ worker[w].pc = "assign"
    /\ worker' = [worker EXCEPT ![w].pc = "request", ![w].request_id = processed]
    /\ hist' = Append(hist, processed)
    /\ upl' = [upl EXCEPT !.stats_lock = IF upl.stats_lock = w THEN Unlocked
                                         ELSE upl.stats_lock]
    /\ UNCHANGED <<engine, server_active, listening, acceptor, queue, conn,
                   processed, dropped, fs, now>>

\* the request is read and answered, the socket closed: the thread is free
counter_return(w) ==
    /\ worker[w].pc = "request"
    /\ worker' = [worker EXCEPT ![w].pc = "idle"]
    /\ UNCHANGED <<engine, server_active, listening, acceptor, queue, conn,
                   processed, dropped, upl>>
    /\ UNCHANGED storeVars

\* monitor_server_performance: with self.stats_lock:
monitor_acquire ==
    /\ upl.monitor = "sleep"
    /\ acquire(upl.stats_lock)
    /\ upl' = [upl EXCEPT !.stats_lock = Monitor, !.monitor = "log"]
    /\ UNCHANGED engineVars
    /\ UNCHANGED storeVars

\* the count is logged, the with block ends
monitor_log ==
    /\ upl.monitor = "log"
    /\ upl' = [upl EXCEPT !.stats_lock = IF upl.stats_lock = Monitor THEN Unlocked
                                         ELSE upl.stats_lock,
                          !.monitor = "sleep", !.logged = processed]
    /\ UNCHANGED engineVars
    /\ UNCHANGED storeVars

NextCounter ==
    \/ \E w \in Workers :
          \/ counter_enter(w)
          \/ counter_acquire(w)
          \/ counter_load(w)
          \/ counter_store(w)
          \/ counter_assign(w)
          \/ counter_return(w)
    \/ monitor_acquire
    \/ monitor_log

SpecCounter == InitCounter /\ [][NextCounter]_vars

-----------------------------------------------------------------------------
(* A worker overwriting a stored file while another worker answers a GET   *)
(* of it: the steps of the with block of handle_upload, and handle_get at  *)
(* any moment between them                                                 *)

\* the file X holds old when the upload of data under X begins
InitOverwrite ==
    /\ now \in 0..MaxTime
    /\ hist = <<>>
    /\ \E X \in RaceNames : \E Pa, Pb \in RacePayloads :
          /\ Pa # Pb
          /\ fs = WriteFile(InitialStore, X, Pa)
          /\ upl = <<[pc |-> "request", name |-> X, data |-> Pb, buf |-> <<>>,
                      old |-> Pa]>>
    /\ EngineStart("thread")

overwrite_open == upload_open(1)

overwrite_write == upload_write(1)

overwrite_close == upload_close(1)

\* handle_request of GET /X in another worker, before, between or after
\* the steps of the upload
download_during ==
    /\ hist = <<>>
    /\ \E r \in {Fetch(PathOf(X)) : X \in RaceNames} :
          /\ r = Fetch(PathOf(upl[1].name))
          /\ Serve(r)

NextOverwrite ==
    overwrite_open \/ overwrite_write \/ overwrite_close \/ download_during

SpecOverwrite == InitOverwrite /\ [][NextOverwrite]_vars

-----------------------------------------------------------------------------
(* Claims on the request processor (specification Spec) *)

Exchanges == 1..Len(hist)

StatusOf(i) == hist[i].resp.status

AllTimes == 0..MaxTime

AllGeneratedNames == UNION {GeneratedNames(t) : t \in AllTimes}

FixedRoutes == {<<"redirect">>, <<"status">>, <<"directory">>}

\* the request uploads payload P under the name X: raw or multipart
UploadsAs(r, X, P) == r = RawUpload(X, P) \/ r = MultipartUpload(X, P)

UploadsUnder(r, X) == \E P \in Payloads : UploadsAs(r, X, P) \/ r = DispositionUpload(X, P)

\* the file k exists and holds P
FileIs(files, k, P) == k \in DOMAIN files /\ files[k] = P

\* the keys whose file exchange i created or changed
Written(i) ==
    {k \in DOMAIN hist[i].post : k \notin DOMAIN hist[i].pre \/ hist[i].post[k] # hist[i].pre[k]}

\* exchange i left the file F as it was
Untouched(i, F) ==
    /\ (F \in DOMAIN hist[i].pre) = (F \in DOMAIN hist[i].post)
    /\ F \in DOMAIN hist[i].pre => hist[i].post[F] = hist[i].pre[F]

\* GET /X is answered 200 with body P and Content-Length len(P)
Returns(j, P) ==
    /\ StatusOf(j) = 200
    /\ hist[j].resp.body = P
    /\ hist[j].resp.content_length = SumLen(P)

Retrievable(X) ==
    /\ X # <<>>
    /\ ~Contains(X, "/")
    /\ ~Contains(X, " ")
    /\ ~StartsWithDot(X)
    /\ X \notin FixedRoutes

C2_UploadsNeverMix ==
    \A i \in Exchanges :
        (/\ upl # <<>>
         /\ \A w \in PoolThreads : upl[w].pc = "closed"
         /\ hist[i].req = Fetch(PathOf(upl[1].name)))
        => /\ hist[i].resp.status = 200
           /\ hist[i].resp.body \in {upl[w].data : w \in PoolThreads}

\* the stored file F stays absent from exchange i + 1 to exchange j - 1
StaysAbsent(i, j, F) == \A k \in (i + 1)..(j - 1) : F \notin DOMAIN hist[k].post

\* DELETE /F of an existing file F: 200, F removed, a later DELETE /F 404
\* with the store unchanged
DeleteRemoves(i, F) ==
    /\ StatusOf(i) = 200
    /\ F \notin DOMAIN hist[i].post
    /\ \A j \in Exchanges :
          (j > i /\ StaysAbsent(i, j, F) /\ hist[j].req = Remove(PathOf(F)))
          => (StatusOf(j) = 404 /\ hist[j].post = hist[j].pre)

\* a later GET /F is answered 404
GetAfterDeleteIs404(i, F) ==
    \A j \in Exchanges :
        (j > i /\ StaysAbsent(i, j, F) /\ hist[j].req = Fetch(PathOf(F)))
        => StatusOf(j) = 404

\* C3 as stated (here for the names without a space only): for every existing
\* stored file F, DELETE /F is answered 200 and removes F, a GET /F after it
\* is answered 404 and a second DELETE /F is answered 404 and changes nothing.
C3_DeleteEveryFile ==
    \A i \in Exchanges : \A F \in StoreEntries(hist[i].pre) :
        (hist[i].req = Remove(PathOf(F)) /\ ~Contains(F, " "))
        => (DeleteRemoves(i, F) /\ GetAfterDeleteIs404(i, F))

\* C3 amended: the same for every existing stored file F whose name has no
\* space, except that the GET after the delete is answered 404 only when F is
\* none of the fixed routes redirect, status, directory.
C3_Delete ==
    \A i \in Exchanges : \A F \in StoreEntries(hist[i].pre) :
        (hist[i].req = Remove(PathOf(F)) /\ ~Contains(F, " "))
        => ( /\ DeleteRemoves(i, F)
             /\ F \notin FixedRoutes => GetAfterDeleteIs404(i, F) )

\* a stored file was deleted and then asked for in vain
C3_Witness ==
    \E i, j \in Exchanges :
        /\ i < j
        /\ ExtName \in DOMAIN hist[i].pre
        /\ hist[i].req = Remove(PathOf(ExtName))
        /\ StatusOf(i) = 200
        /\ hist[j].req = Fetch(PathOf(ExtName))
        /\ StatusOf(j) = 404

\* the last path segment of a name
LastSegment(n) == LET segs == Split(n, "/") IN segs[Len(segs)]

\* the name the claim gives the file of an upload named n at second t
ConfinedName(n, t) ==
    LET seg == LastSegment(n)
    IN  IF seg = <<>> \/ Head(seg) = "." THEN <<"file_">> \o DecStr(t) ELSE seg

TimedOut(c) == conn[c].st = "closed" /\ conn[c].ended = "timeout"

InQueue(c) == \E i \in 1..Len(queue) : queue[i] = ConnectionItem(c)

\* the acceptor gave the connection up: closed, nothing written, no worker
\* has it or had it, and it is not in the queue
GivenUp(c) ==
    /\ conn[c].st = "closed"
    /\ conn[c].sent = <<>> /\ ~conn[c].err
    /\ ~conn[c].taken
    /\ ~InQueue(c)
    /\ \A w \in Workers : worker[w].conn # c

\* the step in which the acceptor drops connection c
Drops(c) == c \notin dropped /\ c \in dropped'

\* C5: in the process pool, when the acceptor holds an accepted connection
\* and the queue stays full for the whole put, the acceptor closes the
\* connection without writing to it and without enqueuing it, no worker ever
\* handles it, and the acceptor returns to its accept loop with the server as
\* active as it was.
C5_FullQueueDrops ==
    /\ [](\A c \in dropped : GivenUp(c))
    /\ [][\A c \in Connections : Drops(c) =>
            /\ acceptor.pc = "put" /\ acceptor.held = c /\ QueueFull
            /\ queue' = queue
            /\ acceptor'.pc = "loop"
            /\ server_active' = server_active /\ listening' = listening]_vars

\* a connection was dropped and the acceptor is waiting in accept() again
C5_Witness ==
    /\ engine = "process"
    /\ dropped # {}
    /\ acceptor.pc = "accept"
    /\ server_active

C7_ContentLengthIsBodyLength ==
    \A i \in Exchanges : hist[i].resp.content_length = SumLen(hist[i].resp.body)

\* the method and the path of a request line, when it has its three parts
MethodOf(r) == Split(r.line, " ")[1]

TargetOf(r) == Split(r.line, " ")[2]

WellFormed(r) == r.term /\ Len(Split(r.line, " ")) >= 3

Refused(i) == StatusOf(i) = 405 /\ hist[i].post = hist[i].pre

\* C8 as stated: a request whose method is not GET, POST or DELETE, and a
\* POST to a path other than /file-upload, is answered 405 and leaves the
\* store unchanged.
C8_OtherMethodRefused ==
    \A i \in Exchanges :
        LET r == hist[i].req
        IN  ( /\ WellFormed(r)
              /\ \/ MethodOf(r) \notin {<<"GET">>, <<"POST">>, <<"DELETE">>}
                 \/ MethodOf(r) = <<"POST">> /\ TargetOf(r) # <<"/", "file-upload">> )
            => Refused(i)

UpperCased(m) == [x \in 1..Len(m) |-> Upper(m[x])]

\* C8 amended: the same with the method compared in upper case, so that
\* "get", "post" and "delete" count as GET, POST and DELETE.
C8_OtherMethodRefusedUpper ==
    \A i \in Exchanges :
        LET r == hist[i].req
            m == UpperCased(MethodOf(r))
        IN  ( /\ WellFormed(r)
              /\ \/ m \notin {<<"GET">>, <<"POST">>, <<"DELETE">>}
                 \/ m = <<"POST">> /\ TargetOf(r) # <<"/", "file-upload">> )
            => Refused(i)

\* a PUT and a POST to another path were both refused
C8_Witness ==
    \E i, j \in Exchanges :
        /\ hist[i].req = Other("PUT", PathOf(PlainName))
        /\ Refused(i)
        /\ hist[j].req = Other("POST", PathOf(PlainName))
        /\ Refused(j)

\* exchange i stored P under a generated name, and a GET of that name right
\* after it returns P
StoredUnderGeneratedName(i, P) ==
    /\ StatusOf(i) = 201
    /\ \E g \in AllGeneratedNames :
          /\ FileIs(hist[i].post, g, P)
          /\ Written(i) \subseteq {g}
          /\ (i < Len(hist) /\ hist[i + 1].req = Fetch(PathOf(g))) => Returns(i + 1, P)

RawWithoutName(r, P) == r = AnonymousUpload(P) \/ r = DispositionUpload(EmptyName, P)

MultipartWithoutName(r, P) ==
    r = Multipart(MultipartType, <<FieldPart(P)>>) \/ r = MultipartUpload(EmptyName, P)

C10_SentinelStopsWorker ==
    [][(queue # <<>> /\ Head(queue) = Sentinel /\ queue' = Tail(queue)) =>
            \E w \in Workers : worker[w].pc = "poll" /\ worker'[w].pc = "exited"]_vars

\* the worker process is running
Alive(w) == worker[w].pc \notin {"unstarted", "exited"}

\* C11: in the process pool, when terminate_server has returned, no worker
\* process is alive: each one ended on its sentinel and was joined, or was
\* ended by the termination signal sent after the join timeout.
C11_NoWorkerAliveAfterTermination ==
    (engine = "process" /\ acceptor.pc = "terminated") => \A w \in Workers : ~Alive(w)

\* C12: in both engines a request a worker has started handling runs to
\* completion: no shutdown step (flag, sentinel, join timeout, terminate)
\* closes its connection before the response is written.
C12_NoRequestAborted ==
    \A c \in Connections : conn[c].taken => conn[c].ended # "exit"

\* start_server has left its accept loop and shutdown has begun
LeftListening == acceptor.pc \in {"sentinels", "join", "terminated", "raised"}

\* C13: in both engines the server leaves the listening state only because
\* of an external interrupt or termination signal; no error raised while
\* accepting, enqueuing or handling a connection ends the accept loop.
C13_ShutdownOnlyBySignal ==
    LeftListening => acceptor.signalled

\* the state of the server's lifecycle
Lifecycle ==
    CASE acceptor.pc = "init" -> "initializing"
      [] acceptor.pc = "aborted" -> "aborted"
      [] acceptor.pc \in {"loop", "accept", "put"} ->
             IF server_active THEN "listening" ELSE "shutting_down"
      [] acceptor.pc \in {"sentinels", "join", "raised"} -> "shutting_down"
      [] OTHER -> "terminated"

Rank(state) ==
    CASE state = "initializing" -> 0
      [] state = "listening" -> 1
      [] state = "shutting_down" -> 2
      [] OTHER -> 3

\* C14: the lifecycle only moves forward, initializing, listening,
\* shutting_down, terminated, or initializing to aborted; a cleared running
\* flag is never set again, a closed listening socket never listens again,
\* and listening is never entered a second time; when bind fails no worker
\* is started, nothing is queued and no connection is ever accepted.
C14_LifecycleMonotonic ==
    /\ [](/\ Lifecycle = "listening" => listening
          /\ Lifecycle = "aborted" =>
                /\ ~server_active /\ ~listening
                /\ \A w \in Workers : worker[w] = UnstartedWorker
                /\ queue = <<>>
                /\ \A c \in Connections : conn[c] = NewConnection)
    /\ [][/\ Rank(Lifecycle') >= Rank(Lifecycle)
          /\ Lifecycle' = "aborted" => Lifecycle \in {"initializing", "aborted"}
          /\ Lifecycle = "aborted" => Lifecycle' = "aborted"
          /\ (server_active' /\ ~server_active) => Lifecycle = "initializing"
          /\ (listening' /\ ~listening) => Lifecycle = "initializing"
          /\ (\E c \in Connections : conn[c].st = "new" /\ conn'[c].st # "new")
                => listening]_vars

\* a process pool that served a connection has gone through the whole
\* lifecycle and is terminated
C14_Witness ==
    /\ Lifecycle = "terminated"
    /\ ~server_active /\ ~listening
    /\ \E c \in Connections : conn[c].taken

\* worker w is handling connection c
HandledBy(w, c) == worker[w].pc = "recv" /\ worker[w].conn = c

\* C15: in both engines every connection handed to a worker is closed by
\* that worker exactly once, after at most one response was written to it,
\* on every outcome; the response is written with the close, so no second
\* request is read from the connection; on a transport failure no response
\* is written.
C15_ClosedOnceOneResponse ==
    /\ [](\A c \in Connections :
            /\ Len(conn[c].sent) <= 1
            /\ (conn[c].err \/ conn[c].ended = "reset") => conn[c].sent = <<>>
            /\ \A v, w \in Workers : HandledBy(v, c) /\ HandledBy(w, c) => v = w
            /\ conn[c].taken =>
                  IF \E w \in Workers : HandledBy(w, c)
                  THEN conn[c].st = "handling" /\ conn[c].sent = <<>>
                  ELSE conn[c].st = "closed")
    /\ [][\A c \in Connections :
            /\ conn[c].st = "closed" => conn'[c] = conn[c]
            /\ (conn[c].st = "handling" /\ conn'[c].st = "closed")
                  => \E w \in Workers : HandledBy(w, c) /\ worker'[w].conn = 0
            /\ conn'[c].sent # conn[c].sent => conn'[c].st = "closed"]_vars

\* one connection was answered and closed, one was reset by its client and
\* closed unanswered, in the thread pool
C15_Witness ==
    /\ engine = "thread"
    /\ \E c, d \in Connections :
          /\ conn[c].st = "closed" /\ conn[c].ended = "term" /\ conn[c].sent = <<200>>
          /\ conn[d].st = "closed" /\ conn[d].ended = "reset" /\ conn[d].sent = <<>>

\* connection c was accepted and put into the queue
Queued(c) == conn[c].st \notin {"new", "accepted"} /\ c \notin dropped

ExpectedType ==
    [F \in StoredNames |->
        CASE F \in {ExtName, <<"a", ".", "txt">>} -> "text/plain"
          [] F = <<"a", ".", "PDF">> -> "application/pdf"
          [] F = <<"a", ".", "json">> -> "application/json"
          [] OTHER -> "application/octet-stream"]

\* exchange i is a GET of the stored file F
GetsStored(i, F) ==
    hist[i].req = Fetch(PathOf(F)) /\ F \in DOMAIN hist[i].pre

\* the answer is 200 with the file and Content-Type T
ServedAs(i, F, T) ==
    /\ StatusOf(i) = 200
    /\ hist[i].resp.body = hist[i].pre[F]
    /\ hist[i].resp.extra = [ContentType |-> T]

\* C17 as stated: a GET of an existing stored file is answered 200 with the
\* Content-Type of the extension table, matched on the lower-cased extension
\* of the name, and application/octet-stream for every other extension and
\* for a name without extension.
C17_TypeOfEveryStoredFile ==
    \A i \in Exchanges : \A F \in StoredNames :
        GetsStored(i, F) => ServedAs(i, F, ExpectedType[F])

\* C17 amended: the same for every stored file that is not named like one
\* of the fixed routes redirect, status and directory, whose GET never
\* reads the file.
C17_TypeOfStoredFile ==
    \A i \in Exchanges : \A F \in StoredNames \ FixedRoutes :
        GetsStored(i, F) => ServedAs(i, F, ExpectedType[F])

\* a.TXT was served as text/plain and the hidden file .txt, which has no
\* extension, as application/octet-stream
C17_Witness ==
    \E i, j \in Exchanges :
        /\ GetsStored(i, ExtName) /\ ServedAs(i, ExtName, "text/plain")
        /\ GetsStored(j, <<".", "txt">>)
        /\ ServedAs(j, <<".", "txt">>, "application/octet-stream")

\* C18: in the thread pool, on an interrupt, shutdown_server stops
\* accepting, closes the listening socket, shuts the pool down and completes
\* normally, without raising an error out of start_server.
C18_ShutdownCompletes ==
    (engine = "thread" /\ acceptor.signalled) => acceptor.pc # "raised"

\* C19: in the process pool, once the shutdown signal handler has cleared
\* the running flag, the acceptor accepts no further connection and
\* enqueues no further connection for the workers.
C19_NoAcceptAfterSignal ==
    [][(engine = "process" /\ acceptor.signalled /\ ~server_active) =>
            \A c \in Connections :
                /\ conn[c].st = "new" => conn'[c].st = "new"
                /\ conn'[c].st = "queued" => conn[c].st = "queued"]_vars

\* C20: in the process pool, after a shutdown signal that arrives while the
\* acceptor is blocked in accept(), the acceptor eventually leaves the
\* accept loop and terminate_server runs, even if no client connects again.
C20_SignalEndsAcceptLoop ==
    (engine = "process" /\ acceptor.pc = "accept" /\ acceptor.signalled)
        ~> LeftListening

-----------------------------------------------------------------------------
(* Claims on the read loop (specification SpecFramer) *)

\* the body bytes of the client's request that the worker has read
BodyRead == SubSeq(upl.req.body, 1, Len(upl.req.body) - Len(upl.rest))

UploadOnWire == upl.req.line = UploadLine

\* C21: a worker reads on only while its buffer holds no \r\n\r\n, so the
\* read that brings the terminator in is its last; an upload is then stored
\* as the body bytes read up to there, whatever the client has still to send,
\* and answered 201 with the count of the bytes stored.
C21_FramerStopsAtTerminator ==
    /\ upl.pc = "recv" => find_terminator(upl.request_buffer) = 0
    /\ (upl.pc = "closed" /\ upl.why = "terminator" /\ UploadOnWire)
           => /\ Len(hist) = 1
              /\ hist[1].resp.status = 201
              /\ FileIs(fs, PlainName, BodyRead)
              /\ hist[1].resp.body =
                     <<"File ">> \o PlainName \o <<" uploaded successfully (">>
                         \o DecStr(Len(BodyRead)) \o <<" bytes)">>

\* an upload answered 201 and stored without the bytes that were still to come
C21_Witness ==
    /\ upl.pc = "closed" /\ upl.why = "terminator" /\ UploadOnWire
    /\ upl.rest # <<>>
    /\ Len(hist) = 1 /\ hist[1].resp.status = 201
    /\ Len(fs[PlainName]) < Len(upl.req.body)

\* C22: a worker reads on only while its buffer is no larger than the limit
\* of its engine, so the buffer never holds more than the limit and one read;
\* the loop ends for the limit only when the buffer is larger than the limit
\* and holds no terminator, a buffer with a terminator ends it for the
\* terminator whatever its size, and the bytes of a loop ended for the limit
\* go to handle_request, which answers 400.
C22_SizeLimit ==
    /\ Len(upl.request_buffer) <= size_limit(engine) + recv_size(engine)
    /\ upl.pc = "recv" => Len(upl.request_buffer) <= size_limit(engine)
    /\ upl.why = "limit" => /\ Len(upl.request_buffer) > size_limit(engine)
                            /\ find_terminator(upl.request_buffer) = 0
    /\ find_terminator(upl.request_buffer) # 0 => upl.why = "terminator"
    /\ (upl.pc = "closed" /\ upl.why = "limit")
           => /\ Len(hist) = 1
              /\ hist[1].resp.status = 400
              /\ hist[1].resp.body = <<"Malformed HTTP request">>
              /\ hist[1].post = hist[1].pre

\* a buffer of the limit and a whole read more, answered 400
C22_Witness ==
    /\ upl.pc = "closed" /\ upl.why = "limit"
    /\ Len(upl.request_buffer) = size_limit(engine) + recv_size(engine)
    /\ Len(hist) = 1 /\ hist[1].resp.status = 400

-----------------------------------------------------------------------------
(* Claims on the router (specification SpecRouter) *)

FileOf(i) == Tail(TargetOf(hist[i].req))

BodyOf(i) == hist[i].resp.body

\* the answer of the fixed route of the path
FixedAnswer(i) ==
    LET request_path == TargetOf(hist[i].req)
    IN  CASE request_path = <<"/">> ->
               /\ StatusOf(i) = 200
               /\ BodyOf(i) = <<"Advanced HTTP File Server - Upload files to /file-upload">>
          [] request_path = <<"/", "redirect">> ->
               /\ StatusOf(i) = 302
               /\ BodyOf(i) = <<>>
               /\ hist[i].resp.extra = [Location |-> "https://youtu.be/dQw4w9WgXcQ"]
          [] request_path = <<"/", "status">> ->
               /\ StatusOf(i) = 200
               /\ BodyOf(i) = <<"Server is running normally">>
          [] request_path = <<"/", "directory">> ->
               /\ StatusOf(i) = 200
               /\ hist[i].resp.extra = [ContentType |-> "text/plain"]
               /\ IF StoreEntries(hist[i].pre) = {}
                  THEN BodyOf(i) = <<"No files in directory">>
                  ELSE \E o \in Orders(StoreEntries(hist[i].pre)) :
                          BodyOf(i) = JoinEntries(o, hist[i].pre)

\* the answer of a look-up of the path under the storage directory: the
\* bytes of the file it names, 404 when it names none
ServedByName(i) ==
    LET to == Resolve(FileOf(i))
    IN  IF FileOf(i) # <<>> /\ to.kind = "file" /\ to.key \in DOMAIN hist[i].pre
        THEN StatusOf(i) = 200 /\ BodyOf(i) = hist[i].pre[to.key]
        ELSE /\ StatusOf(i) = 404
             /\ BodyOf(i) = <<"File ">> \o FileOf(i) \o <<" not found">>

\* the answer of the delete handler: the file the path names is removed,
\* 404 when it names nothing, 500 when it names a directory
DeletedByName(i) ==
    LET to == Resolve(FileOf(i))
    IN  IF FileOf(i) # <<>> /\ to.kind = "file" /\ to.key \in DOMAIN hist[i].pre
        THEN /\ StatusOf(i) = 200
             /\ BodyOf(i) = <<"File ">> \o FileOf(i) \o <<" deleted successfully">>
             /\ hist[i].post = RemoveFile(hist[i].pre, to.key)
        ELSE IF FileOf(i) # <<>> /\ to.kind = "dir"
        THEN StatusOf(i) = 500 /\ hist[i].post = hist[i].pre
        ELSE /\ StatusOf(i) = 404
             /\ BodyOf(i) = <<"File ">> \o FileOf(i) \o <<" not found">>
             /\ hist[i].post = hist[i].pre

FixedPaths == {<<"/">>, <<"/", "redirect">>, <<"/", "status">>, <<"/", "directory">>}

\* C23: a GET of /, /redirect, /status or /directory gets the answer of the
\* fixed route and leaves the store alone, whatever files are stored; a GET of
\* any other path is looked up by name; a DELETE of any path, those four
\* included, gets the answer of the delete handler.
C23_Router ==
    \A i \in Exchanges :
        /\ hist[i].req \in RouterGets
              => /\ hist[i].post = hist[i].pre
                 /\ IF TargetOf(hist[i].req) \in FixedPaths
                    THEN FixedAnswer(i) ELSE ServedByName(i)
        /\ hist[i].req \in RouterDeletes => DeletedByName(i)

\* GET /status answered by the fixed route while a file named status is
\* stored, then DELETE /status removing that file
C23_Witness ==
    /\ Len(hist) = 2
    /\ hist[1].req = Fetch(<<"/", "status">>)
    /\ RouteName \in DOMAIN hist[1].pre
    /\ BodyOf(1) = <<"Server is running normally">>
    /\ hist[2].req = Remove(<<"/", "status">>)
    /\ StatusOf(2) = 200
    /\ RouteName \notin DOMAIN fs

\* the message of the parser for a request it does not accept
ParserMessage(r) ==
    IF ~r.term THEN "Malformed HTTP request"
    ELSE IF Contains(header_bytes(r.line, r.hdrs), "xFF") THEN "Request parsing error: "
    ELSE "Invalid HTTP request line"

\* C24: bytes without \r\n\r\n, a header section with a byte that is no
\* UTF-8, and a request line of fewer than three parts are answered 400 Bad
\* Request with the parser's message for the case, and the store is left as
\* it was: the file the request names is neither removed nor written.
C24_ParserRejects ==
    \A i \in Exchanges :
        hist[i].req \in MalformedRequests
            => /\ StatusOf(i) = 400
               /\ hist[i].resp.text = "Bad Request"
               /\ Head(BodyOf(i)) = ParserMessage(hist[i].req)
               /\ hist[i].post = hist[i].pre

\* a request without terminator and one with the byte 0xff in a header have
\* been answered, the file they name is stored
C24_Witness ==
    /\ ExtName \in DOMAIN fs
    /\ \E i, j \in Exchanges :
          /\ hist[i].req \in MalformedRequests /\ hist[j].req \in MalformedRequests
          /\ ~hist[i].req.term
          /\ hist[j].req.term /\ hist[j].req.hdrs # <<>>
          /\ StatusOf(i) = 400 /\ StatusOf(j) = 400

\* the paths of the requests with '..' or a separator after the leading
\* slash, and the file each names
DottedPaths == {PathOf(OutsideFile), <<"/", ".", "/">> \o ExtName}

FileNamedBy(request_path) ==
    IF request_path = PathOf(OutsideFile) THEN OutsideFile ELSE ExtName

\* C28: a GET of a path with '..' or a separator in it is answered with the
\* bytes of the file the path leads to and a DELETE removes that file, inside
\* or outside the storage directory; an upload under such a name writes only
\* the file of the name's last segment inside the storage directory.
C28_PathsNotSanitized ==
    \A i \in Exchanges :
        LET request_path == TargetOf(hist[i].req)
            F == FileNamedBy(request_path)
        IN  /\ (hist[i].req \in RouterGets /\ request_path \in DottedPaths
                    /\ F \in DOMAIN hist[i].pre)
                  => StatusOf(i) = 200 /\ BodyOf(i) = hist[i].pre[F]
            /\ (hist[i].req \in RouterDeletes /\ request_path \in DottedPaths
                    /\ F \in DOMAIN hist[i].pre)
                  => StatusOf(i) = 200 /\ hist[i].post = RemoveFile(hist[i].pre, F)
            /\ hist[i].req \in RouterUploads
                  => /\ StatusOf(i) = 201
                     /\ Written(i) \subseteq {basename(OutsideFile)}
                     /\ FileIs(hist[i].post, basename(OutsideFile), P2)
                     /\ Untouched(i, OutsideFile)

\* an upload named ../secret has left the outside file alone, a DELETE of
\* /../secret has removed it
C28_Witness ==
    /\ Len(hist) = 2
    /\ hist[1].req \in RouterUploads
    /\ FileIs(hist[1].post, OutsideFile, P1)
    /\ FileIs(hist[1].post, basename(OutsideFile), P2)
    /\ hist[2].req = Remove(PathOf(OutsideFile))
    /\ StatusOf(2) = 200
    /\ OutsideFile \notin DOMAIN fs

-----------------------------------------------------------------------------
(* Claims on multipart uploads (specification SpecMultipart) *)

\* the parts between the preamble and the epilogue of the body
PartsOf(r) == SubSeq(r.parts, 2, Len(r.parts) - 1)

HasBoundary(r) == r.hdrs[1].v = <<" ">> \o MultipartType

\* the part carries Content-Disposition and a filename="..." attribute
NamesFile(part) == part.disp /\ part.hasfn /\ part.fname # None

\* the first of the parts of ps whose index is in S, <<>> when S is empty
FirstPart(ps, S) ==
    IF S = {} THEN <<>> ELSE <<ps[CHOOSE k \in S : \A j \in S : k <= j]>>

\* the content of a part without one trailing \r\n
ContentOf(part) ==
    LET n == Len(part.content)
    IN  IF n >= 2 /\ SubSeq(part.content, n - 1, n) = <<"CR", "LF">>
        THEN SubSeq(part.content, 1, n - 2)
        ELSE part.content

\* exchange i wrote the content of the part, and nothing else, under the
\* name the upload handler gives the part's file name
StoresPart(i, part, t) ==
    /\ StatusOf(i) = 201
    /\ FileIs(hist[i].post, safe_filename(part.fname, t), ContentOf(part))
    /\ \A k \in (DOMAIN hist[i].pre) \cup (DOMAIN hist[i].post) :
          k # safe_filename(part.fname, t) => Untouched(i, k)

NoFileWritten(i) == StatusOf(i) = 400 /\ hist[i].post = hist[i].pre

IsFilePart(part) == NamesFile(part) /\ part.sep

-----------------------------------------------------------------------------
(* Claims on the engines, continued (specification SpecEngine) *)

\* the workers handling connection c, the connections worker w is handling
HandlersOf(c) == {w \in Workers : HandledBy(w, c)}

HandledOf(w) == {c \in Connections : HandledBy(w, c)}

\* C26: in both engines a connection is handled by at most one worker at a
\* time and a worker handles at most one connection at a time, so no more
\* connections are being handled than there are workers; a connection that is
\* being handled is no longer in the queue nor in the hands of the acceptor;
\* and a worker begins handling only a connection that no worker has handled
\* before.
C26_ExclusiveOwnership ==
    /\ [](/\ \A c \in Connections : Cardinality(HandlersOf(c)) <= 1
          /\ \A w \in Workers : Cardinality(HandledOf(w)) <= 1
          /\ Cardinality({c \in Connections : HandlersOf(c) # {}}) <= WorkerCount
          /\ \A c \in Connections :
                HandlersOf(c) # {} => ~InQueue(c) /\ acceptor.held # c)
    /\ [][\A c \in Connections : \A w \in Workers :
            (~HandledBy(w, c) /\ HandledBy(w, c)') => ~conn[c].taken]_vars

\* every worker is handling a connection of its own
C26_Witness ==
    /\ \A w \in Workers : HandledOf(w) # {}
    /\ \A v, w \in Workers : v # w => HandledOf(v) # HandledOf(w)

\* the queue holds connections waiting for a worker and nothing else
OnlyConnectionsQueued == \A i \in 1..Len(queue) : queue[i] # Sentinel

\* C27: a pass of the loop of terminate_server over the worker pool leaves
\* one more sentinel in the queue whatever the queue holds, so the loop
\* enqueues as many sentinels as there are workers; stated here for the
\* passes that find nothing but waiting connections in the queue, a full
\* queue included.
C27_OneSentinelPerWorker ==
    [][(acceptor.pc = "sentinels" /\ OnlyConnectionsQueued
            /\ (acceptor'.idx # acceptor.idx \/ acceptor'.pc = "join"))
          => queue' = Append(queue, Sentinel)]_vars

-----------------------------------------------------------------------------
(* Claims on the request counter (specification SpecCounter) *)

\* the threads between "with self.stats_lock:" and the end of the block
InsideLock == {w \in Workers : worker[w].pc \in {"load", "store", "assign"}}

\* the connections whose request id has been given out
Numbered == Len(hist)

\* C29: under every interleaving of the threads of the pool the request ids
\* are given out as 1, 2, ..., n in this order, one per connection that has
\* passed the counter, so no two connections share an id and no id is left
\* out; at most one thread is inside the locked block; processed_requests is
\* the number of ids given out, one more while the thread inside the block
\* has stored the count and not yet taken its id; and the monitor logs a
\* count that was given out in full.
C29_RequestIds ==
    /\ \A i \in 1..Numbered : hist[i] = i
    /\ Cardinality(InsideLock) <= 1
    /\ processed = Numbered + Cardinality({w \in Workers : worker[w].pc = "assign"})
    /\ InsideLock = {} => processed = Numbered
    /\ \A v, w \in Workers :
          (v # w /\ worker[v].request_id # 0) => worker[v].request_id # worker[w].request_id
    /\ upl.monitor = "log" => processed = Numbered
    /\ upl.logged <= Numbered

\* every connection has its id, the second thread got the first one, while
\* the monitor holds the lock
C29_Witness ==
    /\ Numbered = MaxConnections
    /\ processed = MaxConnections
    /\ worker[2].request_id = 1
    /\ worker[1].request_id > 1
    /\ upl.monitor = "log"

-----------------------------------------------------------------------------
(* Claims on the read loop, continued (specification SpecFramer) *)

Statuses == {200, 201, 302, 400, 404, 405, 500}

\* the worker has closed the connection
Closed == upl.pc = "closed"

\* C30 as stated: every response of handle_request has one of the seven
\* statuses, and every connection on which a worker read bytes has got
\* exactly one response when the worker closes it.
C30_ResponseForEveryBuffer ==
    /\ \A i \in Exchanges : StatusOf(i) \in Statuses
    /\ (Closed /\ upl.request_buffer # <<>>) => Len(hist) = 1

\* C30 amended: every response of handle_request has one of the seven
\* statuses; a read loop that ends on the terminator, the size limit, the
\* end of the stream or a read timeout with bytes in its buffer leads to
\* exactly one response, written before the connection is closed; a read
\* loop that ends with no bytes, and one that a failing read breaks off,
\* whatever it had read, lead to none.
C30_ResponseForEveryRequest ==
    /\ Len(hist) <= 1
    /\ \A i \in Exchanges : StatusOf(i) \in Statuses
    /\ ~Closed => hist = <<>>
    /\ Closed =>
          IF upl.why # "error" /\ upl.request_buffer # <<>>
          THEN Len(hist) = 1
          ELSE hist = <<>>

\* a DELETE that os.remove refused was read to its terminator and answered
\* 500 before the connection was closed
C30_Witness ==
    /\ Closed
    /\ upl.why = "terminator"
    /\ Len(hist) = 1
    /\ StatusOf(1) = 500

-----------------------------------------------------------------------------
(* Claims on a GET during an overwrite (specification SpecOverwrite) *)

\* C31: a GET /X answered while another worker stores an upload over the
\* existing file X is answered 200 with the whole old content or the whole
\* new content of X: never with an empty or partial body, never 404.
C31_GetSeesOldOrNew ==
    \A i \in Exchanges :
        hist[i].req = Fetch(PathOf(upl[1].name))
            => /\ StatusOf(i) = 200
               /\ BodyOf(i) \in {upl[1].old, upl[1].data}

====
